---- MODULE Spec2Model ----
(***************************************************************************)
(* Payment-gated RPC mediation of x402-mcp-extension.                      *)
(*                                                                         *)
(* Server side: HandlerWrapperFactory.createWrappedHandler driving         *)
(* PaymentOrchestrator.validatePayment / settlePayment, one task per       *)
(* inbound request id.  Every await of the code (sub-RPC, facilitator      *)
(* verify, handler body, facilitator execute, sendNotification) is a       *)
(* suspension point, hence a separate action; the synchronous code between *)
(* two awaits (catch blocks, the wrapper's finally) belongs to the action  *)
(* that resumes the task.                                                  *)
(*                                                                         *)
(* Client side: X402MCPClient with its intercepted transport.send          *)
(* (trackRequest / markRequestCompleted), handlePaymentRequired and        *)
(* handleNotification over the PaymentAuditStorage ledger, one task per    *)
(* JSON-RPC id.  Spec runs the server, SpecClient the client.              *)
(***************************************************************************)
EXTENDS Integers, Sequences, FiniteSets, TLC

\* ---------------------------------------------------------------- bounds
MaxReq == 2
MaxId == 1
MaxEvents == 3

\* ------------------------------------------------------- program constants
METHOD_NOT_FOUND == -32601
INVALID_REQUEST == -32600
PAYMENT_REQUIRED == 40200
PAYMENT_INVALID == 40201
PAYMENT_EXECUTION_FAILED == 40204
GUARDRAIL_VIOLATION == 40210
WHITELIST_VIOLATION == 40211

\* Absent values (undefined fields) of each shape.
NoPayment == [signature |-> FALSE, x402Version |-> 0, scheme |-> "none", network |-> "none"]
NoRequirements ==
  [scheme |-> "none", network |-> "none", maxAmountRequired |-> 0, payTo |-> "none",
   maxTimeoutSeconds |-> 0, asset |-> "none"]
NoError == [kind |-> "none", code |-> 0]

\* Request ids of inbound RPCs served by the server session.
ReqIds == 1..MaxReq

ServerNetwork == "base-sepolia"
Networks == {"base-sepolia", "base"}
ServerPayTo == "0xServer"
\* result.asset.address of the pricer for the server's network
ServerAsset == "0xUSDC"

\* ------------------------------------------------------------------ state
VARIABLES
  pc,        \* server: position of the task serving request r
  mode,      \* server: "wrapper" (session callback) or "direct" (orchestrator API)
  prot,      \* server: handlerInfo.paymentOptions present
  ctx,       \* server: the `extra` object of request r (payment fields only)
  reqmt,     \* server: paymentRequirements assembled by the wrapper for r
  pend,      \* server: payment payload under facilitator verification
  caught,    \* server: error held by settlePayment's catch block, or the
             \*         handler body's error held by the wrapper's
  trace,     \* server: events of request r in the order they happened
  chal,      \* server: x402/payment_required requests passed to extra.sendRequest
  execArgs,  \* server: arguments of facilitator.executePayment calls
  notifs,    \* server: extra.sendNotification calls and whether each completed
  outcome,   \* server: what the callback returned or raised
  rpcErr,    \* server: the error extra.sendRequest rejected with, if it did
  orch,      \* server: context.paymentOrchestrator is set
  cancelled, \* server: the session raised the abort signal of request r
  config,    \* client: X402MCPClientOptions (auditStorage, guardrails)
  store,     \* client: backing store of the audit ledger, key -> record
  sendSt,    \* client: progress of the intercepted transport.send of request id
  rpc,       \* client: position of handlePaymentRequired for the challenge of id
  chalp,     \* client: params of the challenge being handled for id
  resp,      \* client: what handlePaymentRequired returned or raised for id
  cliTrace,  \* client: guardrail / wallet / signing events of that handling
  miss,      \* client: the challenge was well formed and the ledger held no
             \*         pending:<id> record for its requestId when it arrived
  demanded,  \* client: number of challenges that arrived for id
  notified,  \* client: number of payment_result notifications handled for id
  paid,      \* client: handlePaymentRequired returned a signed payment for id
  used,      \* client: how many sends, challenges and notifications have begun
  handlerClasses, \* registry: the classes handed to createSessionHandlers
  session,        \* registry: the SessionHandlers it returned
  buildOutcome,   \* registry: whether createSessionHandlers returned or threw
  served,         \* registry: the HandlerInfo whose wrapper serves request r
  reply,          \* server: response.result.payment of the sub-RPC reply of r
  storage,        \* InMemoryStorage: the Map, its entries in insertion order
  clock,          \* InMemoryStorage: Date.now(), in milliseconds
  maxSize,        \* InMemoryStorage: config.maxSize
  got,            \* InMemoryStorage: what the last get returned
  evicted,        \* InMemoryStorage: keys the last set removed in evictOldest
  memLeft,        \* InMemoryStorage: operations and clock advances still explored
  peerSent        \* client: requests tracked by another client on the same store

srvVars == <<pc, mode, prot, ctx, reqmt, pend, caught, trace, chal, execArgs, notifs, outcome,
             rpcErr, orch, cancelled>>

cliVars == <<config, store, sendSt, rpc, chalp, resp, cliTrace, miss, demanded, notified,
             paid, used>>

vars == <<pc, mode, prot, ctx, reqmt, pend, caught, trace, chal, execArgs, notifs, outcome,
          rpcErr, orch, cancelled,
          config, store, sendSt, rpc, chalp, resp, cliTrace, miss, demanded, notified,
          paid, used,
          handlerClasses, session, buildOutcome, served, reply,
          storage, clock, maxSize, got, evicted, memLeft, peerSent>>

regVars == <<handlerClasses, session, buildOutcome, served>>

memVars == <<storage, clock, maxSize, got, evicted, memLeft>>

\* ---------------------------------------------------------------- values
EmptyCtx == [paymentProof |-> NoPayment, paymentRequirements |-> NoRequirements]

NoOutcome == [kind |-> "pending", code |-> 0]
Result == [kind |-> "result", code |-> 0]

\* new PaymentError(code, ...)
PaymentError(code) == [kind |-> "PaymentError", code |-> code]

\* new PaymentError(code, message, details)
PaymentErrorWith(code, details) ==
  [kind |-> "PaymentError", code |-> code, details |-> details]

\* a plain Error (no PaymentError instance)
PlainError == [kind |-> "Error", code |-> 0, message |-> "failed"]

\* new Error(message)
ErrorSaying(message) == [kind |-> "Error", code |-> 0, message |-> message]

\* A payment payload as far as validatePaymentProof inspects it.
Payments ==
  [signature : BOOLEAN, x402Version : {1, 2}, scheme : {"exact", "other"},
   network : Networks]

\* assemblePaymentRequirements: requirements of the handler serving request r
assemblePaymentRequirements(amount) ==
  [scheme |-> "exact", network |-> ServerNetwork, maxAmountRequired |-> amount,
   payTo |-> ServerPayTo, maxTimeoutSeconds |-> 60, asset |-> ServerAsset]

Amounts == {1000}

\* Variant of PaymentRequiredRequest that numbers the sub-RPC on its own.
PaymentRequiredRequestOwnId(r, req) ==
  [id |-> r + 1, method |-> "x402/payment_required",
   params |-> [scheme |-> req.scheme, network |-> req.network,
               maxAmountRequired |-> req.maxAmountRequired, payTo |-> req.payTo,
               x402Version |-> 1, requestId |-> r + 1]]

\* sendPaymentRequiredRequest: the request object built for extra.sendRequest
PaymentRequiredRequest(r, req) ==
  [id |-> r, method |-> "x402/payment_required",
   params |-> [scheme |-> req.scheme, network |-> req.network,
               maxAmountRequired |-> req.maxAmountRequired, payTo |-> req.payTo,
               x402Version |-> 1, requestId |-> r]]

\* rpcErr while extra.sendRequest has not rejected
NoSubRpcError == [raised |-> FALSE, code |-> 0, mnfMessage |-> FALSE]

\* Errors extra.sendRequest may reject with: [code, mnfMessage]
\* code = 0 stands for an error object without a code.
SubRpcErrors ==
  { [code |-> METHOD_NOT_FOUND, mnfMessage |-> FALSE],
    [code |-> -32603, mnfMessage |-> TRUE],
    [code |-> 0, mnfMessage |-> TRUE],
    [code |-> GUARDRAIL_VIOLATION, mnfMessage |-> FALSE],
    [code |-> WHITELIST_VIOLATION, mnfMessage |-> FALSE],
    [code |-> 0, mnfMessage |-> FALSE] }

\* Variant of isMethodNotFoundError that looks at the error code only.
isMethodNotFoundByCode(e) == e.code = METHOD_NOT_FOUND

isMethodNotFoundError(e) == e.code = METHOD_NOT_FOUND \/ e.mnfMessage

\* Variant of SubRpcFailure that wraps every other error as PAYMENT_INVALID.
SubRpcFailureWrapsAll(e, req) ==
  IF isMethodNotFoundError(e)
  THEN PaymentErrorWith(PAYMENT_REQUIRED,
         [amount |-> req.maxAmountRequired, asset |-> req.asset,
          paymentAddress |-> ServerPayTo, network |-> ServerNetwork])
  ELSE PaymentErrorWith(PAYMENT_INVALID, e)

\* sendPaymentRequiredRequest's catch block: the PaymentError it throws for
\* the rejection e of the sub-RPC that carried the requirements req
SubRpcFailure(e, req) ==
  IF isMethodNotFoundError(e)
  THEN PaymentErrorWith(PAYMENT_REQUIRED,
         [amount |-> req.maxAmountRequired, asset |-> req.asset,
          paymentAddress |-> ServerPayTo, network |-> ServerNetwork])
  ELSE PaymentErrorWith(IF e.code # 0 THEN e.code ELSE PAYMENT_INVALID, e)

\* Variant of StructuralCheck that looks at the version before the signature.
StructuralCheckVersionFirst(p, req) ==
  IF p # NoPayment /\ p.x402Version # 1 THEN PaymentError(INVALID_REQUEST)
  ELSE IF p = NoPayment THEN PaymentError(PAYMENT_INVALID)
  ELSE IF ~p.signature THEN PaymentError(PAYMENT_INVALID)
  ELSE IF p.scheme # "exact" THEN PaymentError(PAYMENT_INVALID)
  ELSE IF p.network # req.network THEN PaymentError(PAYMENT_INVALID)
  ELSE NoError

\* validatePaymentProof, structural part: the error thrown, or NoError
StructuralCheck(p, req) ==
  IF p = NoPayment THEN PaymentError(PAYMENT_INVALID)
  ELSE IF ~p.signature THEN PaymentError(PAYMENT_INVALID)
  ELSE IF p.x402Version # 1 THEN PaymentError(INVALID_REQUEST)
  ELSE IF p.scheme # "exact" THEN PaymentError(PAYMENT_INVALID)
  ELSE IF p.network # req.network THEN PaymentError(PAYMENT_INVALID)
  ELSE NoError

\* Variant of ValidateRethrow that lets every error through unwrapped.
ValidateRethrowUnwrapped(e) == e

\* validatePayment's catch block: PaymentErrors pass, anything else is wrapped
ValidateRethrow(e) ==
  IF e.kind = "PaymentError" THEN e ELSE PaymentError(PAYMENT_INVALID)

\* Variant of SettleRethrow that lets every error through unwrapped.
SettleRethrowUnwrapped(e) == e

\* settlePayment's catch block, after the failure notification was sent
SettleRethrow(e) ==
  IF e.kind = "PaymentError" THEN e ELSE PaymentError(PAYMENT_EXECUTION_FAILED)

\* Variant of WrapperRethrow that wraps every error, payment errors included.
WrapperRethrowWrapsAll(e) ==
  ErrorSaying("Handler execution failed: "
                \o (IF e.kind = "PaymentError" THEN "payment" ELSE e.message))

\* createWrappedHandler's catch block
WrapperRethrow(e) ==
  IF e.kind = "PaymentError" THEN e
  ELSE ErrorSaying("Handler execution failed: " \o e.message)

\* Variant of WrapperFinally that leaves the payment fields on the context.
WrapperFinallyKeeps(c) == c

\* createWrappedHandler's finally block
WrapperFinally(c) ==
  [c EXCEPT !.paymentProof = NoPayment, !.paymentRequirements = NoRequirements]

\* --------------------------------------------------------- server: actions
InitServer ==
  /\ pc = [r \in ReqIds |-> "idle"]
  /\ mode = [r \in ReqIds |-> "wrapper"]
  /\ prot = [r \in ReqIds |-> FALSE]
  /\ ctx = [r \in ReqIds |-> EmptyCtx]
  /\ reqmt = [r \in ReqIds |-> NoRequirements]
  /\ pend = [r \in ReqIds |-> NoPayment]
  /\ caught = [r \in ReqIds |-> NoError]
  /\ trace = [r \in ReqIds |-> <<>>]
  /\ chal = [r \in ReqIds |-> <<>>]
  /\ execArgs = [r \in ReqIds |-> <<>>]
  /\ notifs = [r \in ReqIds |-> <<>>]
  /\ outcome = [r \in ReqIds |-> NoOutcome]
  /\ rpcErr = [r \in ReqIds |-> NoSubRpcError]
  /\ cancelled = [r \in ReqIds |-> FALSE]
  /\ reply = [r \in ReqIds |-> NoPayment]

\* The task of request r ends with o (Result or the error in flight).
\* Under the wrapper the error passes the catch block and the finally block
\* strips the context; a direct caller of the orchestrator gets o as it is.
Exit(r, o, c) ==
  /\ pc' = [pc EXCEPT ![r] = "done"]
  /\ outcome' = [outcome EXCEPT ![r] =
        IF mode[r] = "wrapper" /\ o.kind # "result" THEN WrapperRethrow(o) ELSE o]
  /\ ctx' = [ctx EXCEPT ![r] = IF mode[r] = "wrapper" THEN WrapperFinally(c) ELSE c]

\* settlePayment up to its first await: either executePayment is called, or
\* the missing context throws PAYMENT_INVALID into the catch block, which
\* calls sendNotification(success=false).
SettleEnter(r, c, evs) ==
  IF c.paymentProof = NoPayment \/ c.paymentRequirements = NoRequirements
  THEN /\ pc' = [pc EXCEPT ![r] = "notify_fail"]
       /\ caught' = [caught EXCEPT ![r] = PaymentError(PAYMENT_INVALID)]
       /\ trace' = [trace EXCEPT ![r] = @ \o evs \o <<"notify">>]
       /\ UNCHANGED execArgs
  ELSE /\ pc' = [pc EXCEPT ![r] = "execute"]
       /\ execArgs' = [execArgs EXCEPT ![r] =
             Append(@, [proof |-> c.paymentProof, requirements |-> c.paymentRequirements])]
       /\ trace' = [trace EXCEPT ![r] = @ \o evs \o <<"execute">>]
       /\ UNCHANGED caught

\* assemblePaymentRequirements when the pricer reports an error
PricerError == ErrorSaying("Failed to process price")

\* Variant of Invoke that has the challenge on its way before the pricer is
\* found to have failed.
InvokePricedLate(r, protected, pricerOk, amount) ==
  /\ pc[r] = "idle"
  /\ mode' = [mode EXCEPT ![r] = "wrapper"]
  /\ prot' = [prot EXCEPT ![r] = protected]
  /\ IF protected /\ (~pricerOk \/ ~orch)
     THEN /\ Exit(r, IF ~pricerOk THEN PricerError ELSE PlainError, ctx[r])
          /\ chal' = [chal EXCEPT ![r] =
                Append(@, PaymentRequiredRequest(r, assemblePaymentRequirements(amount)))]
          /\ UNCHANGED <<reqmt, trace>>
     ELSE IF protected
     THEN /\ reqmt' = [reqmt EXCEPT ![r] = assemblePaymentRequirements(amount)]
          /\ chal' = [chal EXCEPT ![r] =
                Append(@, PaymentRequiredRequest(r, assemblePaymentRequirements(amount)))]
          /\ trace' = [trace EXCEPT ![r] = Append(@, "challenge")]
          /\ pc' = [pc EXCEPT ![r] = "await_proof"]
          /\ UNCHANGED <<ctx, outcome>>
     ELSE /\ trace' = [trace EXCEPT ![r] = Append(@, "handler")]
          /\ pc' = [pc EXCEPT ![r] = "handler"]
          /\ UNCHANGED <<reqmt, chal, ctx, outcome>>
  /\ UNCHANGED <<pend, caught, execArgs, notifs, rpcErr>>

\* The session layer dispatches request r to the wrapped callback.
\* Protected handler: requirements are assembled and validatePayment sends
\* the x402/payment_required sub-RPC; a failing pricer or a context without
\* orchestrator throws into the catch block.  Free handler: the body is called.
Invoke(r, protected, pricerOk, amount) ==
  /\ pc[r] = "idle"
  /\ mode' = [mode EXCEPT ![r] = "wrapper"]
  /\ prot' = [prot EXCEPT ![r] = protected]
  /\ IF protected /\ (~pricerOk \/ ~orch)
     THEN /\ Exit(r, IF ~pricerOk THEN PricerError ELSE PlainError, ctx[r])
          /\ UNCHANGED <<reqmt, trace, chal>>
     ELSE IF protected
     THEN /\ reqmt' = [reqmt EXCEPT ![r] = assemblePaymentRequirements(amount)]
          /\ chal' = [chal EXCEPT ![r] =
                Append(@, PaymentRequiredRequest(r, assemblePaymentRequirements(amount)))]
          /\ trace' = [trace EXCEPT ![r] = Append(@, "challenge")]
          /\ pc' = [pc EXCEPT ![r] = "await_proof"]
          /\ UNCHANGED <<ctx, outcome>>
     ELSE /\ trace' = [trace EXCEPT ![r] = Append(@, "handler")]
          /\ pc' = [pc EXCEPT ![r] = "handler"]
          /\ UNCHANGED <<reqmt, chal, ctx, outcome>>
  /\ UNCHANGED <<pend, caught, execArgs, notifs, rpcErr>>

\* Variant of SubRpcError that sends the challenge once more after a failure
\* that is not a method-not-found error.
SubRpcErrorRetries(r, e) ==
  /\ pc[r] = "await_proof"
  /\ rpcErr' = [rpcErr EXCEPT ![r] =
        [raised |-> TRUE, code |-> e.code, mnfMessage |-> e.mnfMessage]]
  /\ IF isMethodNotFoundError(e)
     THEN /\ trace' = [trace EXCEPT ![r] = @ \o <<"response", "invalid">>]
          /\ Exit(r, ValidateRethrow(SubRpcFailure(e, reqmt[r])), ctx[r])
          /\ UNCHANGED chal
     ELSE /\ trace' = [trace EXCEPT ![r] = @ \o <<"response", "challenge">>]
          /\ chal' = [chal EXCEPT ![r] = Append(@, PaymentRequiredRequest(r, reqmt[r]))]
          /\ UNCHANGED <<pc, outcome, ctx>>
  /\ UNCHANGED <<mode, prot, reqmt, pend, caught, execArgs, notifs>>

\* extra.sendRequest rejects with e.
SubRpcError(r, e) ==
  /\ pc[r] = "await_proof"
  /\ rpcErr' = [rpcErr EXCEPT ![r] =
        [raised |-> TRUE, code |-> e.code, mnfMessage |-> e.mnfMessage]]
  /\ trace' = [trace EXCEPT ![r] = @ \o <<"response", "invalid">>]
  /\ Exit(r, ValidateRethrow(SubRpcFailure(e, reqmt[r])), ctx[r])
  /\ UNCHANGED <<mode, prot, reqmt, pend, caught, chal, execArgs, notifs>>

\* Variant of SubRpcReply that trusts a well-formed proof without asking the
\* facilitator.
SubRpcReplyUnverified(r, p) ==
  /\ pc[r] = "await_proof"
  /\ IF StructuralCheck(p, reqmt[r]) # NoError
     THEN /\ trace' = [trace EXCEPT ![r] = @ \o <<"response", "invalid">>]
          /\ Exit(r, ValidateRethrow(StructuralCheck(p, reqmt[r])), ctx[r])
     ELSE /\ trace' = [trace EXCEPT ![r] = @ \o <<"response", "verified", "handler">>]
          /\ ctx' = [ctx EXCEPT ![r] =
                [paymentProof |-> p, paymentRequirements |-> reqmt[r]]]
          /\ pc' = [pc EXCEPT ![r] = "handler"]
          /\ UNCHANGED outcome
  /\ UNCHANGED <<mode, prot, reqmt, pend, caught, chal, execArgs, notifs, rpcErr>>

\* Variant of SubRpcReply that stores a well-formed proof into extra before
\* the facilitator has judged it.
SubRpcReplyStoresEarly(r, p) ==
  /\ pc[r] = "await_proof"
  /\ IF StructuralCheck(p, reqmt[r]) # NoError
     THEN /\ trace' = [trace EXCEPT ![r] = @ \o <<"response", "invalid">>]
          /\ Exit(r, ValidateRethrow(StructuralCheck(p, reqmt[r])), ctx[r])
          /\ UNCHANGED pend
     ELSE /\ trace' = [trace EXCEPT ![r] = @ \o <<"response", "verify">>]
          /\ pend' = [pend EXCEPT ![r] = p]
          /\ pc' = [pc EXCEPT ![r] = "verify"]
          /\ ctx' = [ctx EXCEPT ![r] = [paymentProof |-> p, paymentRequirements |-> reqmt[r]]]
          /\ UNCHANGED outcome
  /\ UNCHANGED <<mode, prot, reqmt, caught, chal, execArgs, notifs, rpcErr>>

\* extra.sendRequest resolves; response.result.payment is p (NoPayment: absent).
\* validatePaymentProof checks it and, when well formed, calls the facilitator.
SubRpcReply(r, p) ==
  /\ pc[r] = "await_proof"
  /\ IF StructuralCheck(p, reqmt[r]) # NoError
     THEN /\ trace' = [trace EXCEPT ![r] = @ \o <<"response", "invalid">>]
          /\ Exit(r, ValidateRethrow(StructuralCheck(p, reqmt[r])), ctx[r])
          /\ UNCHANGED pend
     ELSE /\ trace' = [trace EXCEPT ![r] = @ \o <<"response", "verify">>]
          /\ pend' = [pend EXCEPT ![r] = p]
          /\ pc' = [pc EXCEPT ![r] = "verify"]
          /\ UNCHANGED <<ctx, outcome>>
  /\ UNCHANGED <<mode, prot, reqmt, caught, chal, execArgs, notifs, rpcErr>>

VerifyResults == {"valid", "invalid", "throws"}

\* Variant of FacilitatorVerify that keeps the verified proof in one context
\* shared by every invocation of the session.
FacilitatorVerifyShared(r, res) ==
  /\ pc[r] = "verify"
  /\ pend' = [pend EXCEPT ![r] = NoPayment]
  /\ IF res = "valid"
     THEN /\ ctx' = [q \in ReqIds |->
                [paymentProof |-> pend[r], paymentRequirements |-> reqmt[r]]]
          /\ trace' = [trace EXCEPT ![r] = @ \o <<"verified", "handler">>]
          /\ pc' = [pc EXCEPT ![r] = "handler"]
          /\ UNCHANGED outcome
     ELSE /\ Exit(r, ValidateRethrow(IF res = "invalid"
                                     THEN PaymentError(PAYMENT_INVALID)
                                     ELSE PlainError), ctx[r])
          /\ trace' = [trace EXCEPT ![r] = Append(@, "invalid")]
  /\ UNCHANGED <<mode, prot, reqmt, caught, chal, execArgs, notifs, rpcErr>>

\* facilitator.validatePayment completes.  Valid: the proof and requirements
\* are stored into extra, validatePayment returns and the wrapper calls the
\* handler body with that same extra.
FacilitatorVerify(r, res) ==
  /\ pc[r] = "verify"
  /\ pend' = [pend EXCEPT ![r] = NoPayment]
  /\ IF res = "valid"
     THEN /\ ctx' = [ctx EXCEPT ![r] =
                [paymentProof |-> pend[r], paymentRequirements |-> reqmt[r]]]
          /\ trace' = [trace EXCEPT ![r] = @ \o <<"verified", "handler">>]
          /\ pc' = [pc EXCEPT ![r] = "handler"]
          /\ UNCHANGED outcome
     ELSE /\ Exit(r, ValidateRethrow(IF res = "invalid"
                                     THEN PaymentError(PAYMENT_INVALID)
                                     ELSE PlainError), ctx[r])
          /\ trace' = [trace EXCEPT ![r] = Append(@, "invalid")]
  /\ UNCHANGED <<mode, prot, reqmt, caught, chal, execArgs, notifs, rpcErr>>

\* Variant of HandlerReturn that settles after every handler, priced or not.
HandlerReturnSettlesAll(r) ==
  /\ pc[r] = "handler"
  /\ SettleEnter(r, ctx[r], <<"returned">>)
  /\ UNCHANGED <<ctx, outcome>>
  /\ UNCHANGED <<mode, prot, reqmt, pend, chal, notifs, rpcErr>>

\* The handler body returns; for a protected handler settlePayment starts.
HandlerReturn(r) ==
  /\ pc[r] = "handler"
  /\ IF prot[r]
     THEN /\ SettleEnter(r, ctx[r], <<"returned">>)
          /\ UNCHANGED <<ctx, outcome>>
     ELSE /\ Exit(r, Result, ctx[r])
          /\ trace' = [trace EXCEPT ![r] = Append(@, "returned")]
          /\ UNCHANGED <<caught, execArgs>>
  /\ UNCHANGED <<mode, prot, reqmt, pend, chal, notifs, rpcErr>>

HandlerErrors == {PlainError, ErrorSaying("boom"), PaymentError(INVALID_REQUEST)}

\* Variant of HandlerThrow that still settles a protected handler's payment.
HandlerThrowSettles(r, e) ==
  /\ pc[r] = "handler"
  /\ IF prot[r]
     THEN /\ SettleEnter(r, ctx[r], <<"threw">>)
          /\ UNCHANGED <<ctx, outcome>>
     ELSE /\ Exit(r, e, ctx[r])
          /\ trace' = [trace EXCEPT ![r] = Append(@, "threw")]
          /\ UNCHANGED <<caught, execArgs>>
  /\ UNCHANGED <<mode, prot, reqmt, pend, chal, notifs, rpcErr>>

\* The handler body throws e, which the wrapper's catch block receives.
HandlerThrow(r, e) ==
  /\ pc[r] = "handler"
  /\ Exit(r, e, ctx[r])
  /\ trace' = [trace EXCEPT ![r] = Append(@, "threw")]
  /\ caught' = [caught EXCEPT ![r] = e]
  /\ UNCHANGED <<mode, prot, reqmt, pend, chal, execArgs, notifs, rpcErr>>

ExecuteResults == {"success", "failure", "throws"}

\* facilitator.executePayment completes; settlePayment calls sendNotification
\* with success=true, or from its catch block with success=false.
ExecuteReturn(r, res) ==
  /\ pc[r] = "execute"
  /\ trace' = [trace EXCEPT ![r] = Append(@, "notify")]
  /\ IF res = "success"
     THEN /\ pc' = [pc EXCEPT ![r] = "notify_ok"]
          /\ UNCHANGED caught
     ELSE /\ pc' = [pc EXCEPT ![r] = "notify_fail"]
          /\ caught' = [caught EXCEPT ![r] =
                IF res = "failure" THEN PaymentError(PAYMENT_EXECUTION_FAILED)
                ELSE PlainError]
  /\ UNCHANGED <<mode, prot, ctx, reqmt, pend, chal, execArgs, notifs, outcome, rpcErr>>

\* The notification object settlePayment passes to extra.sendNotification:
\* params.errorReason is set in the failure notification only.
PaymentResultNotification(r, success, sent) ==
  [method |-> "x402/payment_result", success |-> success, requestId |-> r,
   hasErrorReason |-> ~success, sent |-> sent]

\* sendNotification(success=true) completes (sent) or rejects (~sent).
\* A rejection lands in the catch block, which sends success=false.
NotifyOkDone(r, sent) ==
  /\ pc[r] = "notify_ok"
  /\ notifs' = [notifs EXCEPT ![r] = Append(@, PaymentResultNotification(r, TRUE, sent))]
  /\ IF sent
     THEN /\ Exit(r, Result, ctx[r])
          /\ UNCHANGED <<caught, trace>>
     ELSE /\ pc' = [pc EXCEPT ![r] = "notify_fail"]
          /\ caught' = [caught EXCEPT ![r] = PlainError]
          /\ trace' = [trace EXCEPT ![r] = Append(@, "notify")]
          /\ UNCHANGED <<ctx, outcome>>
  /\ UNCHANGED <<mode, prot, reqmt, pend, chal, execArgs, rpcErr>>

\* Variant of NotifyFailDone that, when the send rejects, keeps waiting for a
\* delivery that never comes in place of letting the rejection propagate.
NotifyFailDoneWaits(r, sent) ==
  /\ pc[r] = "notify_fail"
  /\ notifs' = [notifs EXCEPT ![r] = Append(@, PaymentResultNotification(r, FALSE, sent))]
  /\ IF sent
     THEN Exit(r, SettleRethrow(caught[r]), ctx[r])
     ELSE /\ pc' = [pc EXCEPT ![r] = "notify_wait"]
          /\ UNCHANGED <<ctx, outcome>>
  /\ UNCHANGED <<mode, prot, reqmt, pend, caught, trace, chal, execArgs, rpcErr>>

\* sendNotification(success=false) completes or rejects; on completion the
\* catch block rethrows, a rejection propagates out of the catch block.
NotifyFailDone(r, sent) ==
  /\ pc[r] = "notify_fail"
  /\ notifs' = [notifs EXCEPT ![r] = Append(@, PaymentResultNotification(r, FALSE, sent))]
  /\ Exit(r, IF sent THEN SettleRethrow(caught[r]) ELSE PlainError, ctx[r])
  /\ UNCHANGED <<mode, prot, reqmt, pend, caught, trace, chal, execArgs, rpcErr>>

\* Contexts a caller of the orchestrator API may hand to settlePayment.
DirectCtxs ==
  [paymentProof : {NoPayment, [signature |-> TRUE, x402Version |-> 1, scheme |-> "exact",
                          network |-> ServerNetwork]},
   paymentRequirements : {NoRequirements} \cup {assemblePaymentRequirements(a) : a \in Amounts}]

\* IPaymentOrchestrator.settlePayment(extra) called on its own.
DirectSettle(r, c) ==
  /\ pc[r] = "idle"
  /\ orch
  /\ mode' = [mode EXCEPT ![r] = "direct"]
  /\ prot' = [prot EXCEPT ![r] = TRUE]
  /\ ctx' = [ctx EXCEPT ![r] = c]
  /\ SettleEnter(r, c, <<>>)
  /\ UNCHANGED <<reqmt, pend, chal, notifs, outcome, rpcErr>>

SettleSteps ==
  \E r \in ReqIds :
    \/ \E res \in ExecuteResults : ExecuteReturn(r, res)
    \/ \E sent \in BOOLEAN : NotifyOkDone(r, sent)
    \/ \E sent \in BOOLEAN : NotifyFailDone(r, sent)

WrapperSteps ==
  \E r \in ReqIds :
    \/ \E protected \in BOOLEAN, pricerOk \in BOOLEAN, a \in Amounts :
         Invoke(r, protected, pricerOk, a)
    \/ \E e \in SubRpcErrors : SubRpcError(r, e)
    \/ \E p \in Payments \cup {NoPayment} : SubRpcReply(r, p)
    \/ \E res \in VerifyResults : FacilitatorVerify(r, res)
    \/ HandlerReturn(r)
    \/ \E e \in HandlerErrors : HandlerThrow(r, e)

DirectCalls == \E r \in ReqIds, c \in DirectCtxs : DirectSettle(r, c)

\* The session aborts the signal of request r (notifications/cancelled) while
\* its callback runs.  Neither the wrapper nor the orchestrator reads it.
Cancel(r) ==
  /\ pc[r] \notin {"idle", "done"}
  /\ mode[r] = "wrapper"
  /\ ~cancelled[r]
  /\ cancelled' = [cancelled EXCEPT ![r] = TRUE]
  /\ UNCHANGED <<pc, mode, prot, ctx, reqmt, pend, caught, trace, chal, execArgs, notifs,
                 outcome, rpcErr, orch>>

Cancellations == \E r \in ReqIds : Cancel(r)

\* ------------------------------------------------------------------ client
\* Ids of JSON-RPC messages on the client session (the SDK counts from 0).
Ids == 0..MaxId

\* if (requestId): 0 is falsy
Truthy(id) == id # 0

NoCap == 0
NoList == {"none"}

\* options.guardrails: absent, or {maxPaymentPerCall?, whitelistedServers?}
Guardrails ==
  [configured : {TRUE}, maxPaymentPerCall : {NoCap, 1000},
   whitelistedServers : {NoList, {"0xServer"}}]

NoGuardrails == [configured |-> FALSE, maxPaymentPerCall |-> NoCap, whitelistedServers |-> NoList]

\* The client configurations explored: with and without a ledger, without
\* guardrails and with both a per-call cap and an allowlist.
Configs ==
  [auditStorage : BOOLEAN,
   guardrails : {NoGuardrails,
                 [configured |-> TRUE, maxPaymentPerCall |-> 1000,
                  whitelistedServers |-> {"0xServer"}]}]

DefaultConfig == [auditStorage |-> TRUE, guardrails |-> NoGuardrails]

\* Guardrail options for the checks of enforce alone: each of the two options
\* absent or present, two caps, the empty allowlist ([] is truthy) and one
\* with the server's address; the client keeps no ledger.
GuardrailConfigs ==
  [auditStorage : {FALSE},
   guardrails : [configured : {TRUE}, maxPaymentPerCall : {NoCap, 1000, 2000},
                 whitelistedServers : {NoList, {}, {"0xServer"}}]]

\* PaymentAuditStorage.buildPendingKey and the bare key requestId.toString()
PendingKey(id) == <<"pending", id>>
PlainKey(id) == <<"plain", id>>
Keys == {"pending", "plain"} \X Ids

\* PaymentAuditRecord (fields the status logic touches); NoRecord: key absent
NoRecord ==
  [requestStatus |-> "none", paymentStatus |-> "none", requestCompletedAt |-> FALSE,
   paymentCompletedAt |-> FALSE, transactionHash |-> "none", errorReason |-> "none",
   payerAddress |-> "none"]

\* PaymentAuditStorage.storePendingRequest: the record it writes
FreshRecord ==
  [requestStatus |-> "pending", paymentStatus |-> "pending", requestCompletedAt |-> FALSE,
   paymentCompletedAt |-> FALSE, transactionHash |-> "none", errorReason |-> "none",
   payerAddress |-> "none"]

\* PaymentAuditStorage.storePendingRequest
storePendingRequest(st, id) == [st EXCEPT ![PendingKey(id)] = FreshRecord]

\* PaymentAuditStorage.getPendingRequest
getPendingRequest(st, id) == st[PendingKey(id)]

\* Variant of markRequestCompleted that moves the record from pending:<id>
\* to <id> in place of copying it.
markRequestCompletedMoves(st, id) ==
  IF st[PendingKey(id)] # NoRecord
  THEN [st EXCEPT ![PlainKey(id)] =
          [st[PendingKey(id)] EXCEPT !.requestStatus = "completed",
                                     !.requestCompletedAt = TRUE],
                  ![PendingKey(id)] = NoRecord]
  ELSE st

\* PaymentAuditStorage.markRequestCompleted
markRequestCompleted(st, id) ==
  IF st[PendingKey(id)] # NoRecord
  THEN [st EXCEPT ![PlainKey(id)] =
          [st[PendingKey(id)] EXCEPT !.requestStatus = "completed",
                                     !.requestCompletedAt = TRUE]]
  ELSE st

\* details of updatePaymentStatus: falsy fields are "none"
NoDetails == [transactionHash |-> "none", errorReason |-> "none",
   payerAddress |-> "none"]

\* Variant of updatePaymentStatus that rekeys the record under <id> whatever
\* the new status.
updatePaymentStatusRekeys(st, id, status, details) ==
  IF st[PendingKey(id)] # NoRecord
  THEN [st EXCEPT ![PlainKey(id)] =
          [st[PendingKey(id)] EXCEPT
             !.paymentStatus = status,
             !.paymentCompletedAt = TRUE,
             !.transactionHash =
                IF details.transactionHash # "none" THEN details.transactionHash ELSE @,
             !.payerAddress =
                IF details.payerAddress # "none" THEN details.payerAddress ELSE @,
             !.errorReason =
                IF details.errorReason # "none" THEN details.errorReason ELSE @]]
  ELSE st

\* PaymentAuditStorage.updatePaymentStatus
updatePaymentStatus(st, id, status, details) ==
  IF st[PendingKey(id)] # NoRecord
  THEN LET rec == [st[PendingKey(id)] EXCEPT
                     !.paymentStatus = status,
                     !.paymentCompletedAt = TRUE,
                     !.transactionHash =
                        IF details.transactionHash # "none" THEN details.transactionHash ELSE @,
                     !.payerAddress =
                        IF details.payerAddress # "none" THEN details.payerAddress ELSE @,
                     !.errorReason =
                        IF details.errorReason # "none" THEN details.errorReason ELSE @]
       IN IF status # "pending"
          THEN [st EXCEPT ![PlainKey(id)] = rec]
          ELSE [st EXCEPT ![PendingKey(id)] = rec]
  ELSE st

\* X402MCPClient.trackRequest / markRequestCompleted: no-ops without a ledger
trackRequest(st, id) == IF config.auditStorage THEN storePendingRequest(st, id) ELSE st

clientMarkCompleted(st, id) == IF config.auditStorage THEN markRequestCompleted(st, id) ELSE st

\* params of a x402/payment_required request.  present: payTo, maxAmountRequired
\* and network are all there; hasRequestId: params.requestId is there and
\* equals the JSON-RPC id (as the server builds it).
Challenges ==
  [present : BOOLEAN, scheme : {"exact", "other"}, x402Version : {1, 2},
   network : {"base-sepolia", "bogus"}, maxAmountRequired : {1000, 2000},
   payTo : {"0xServer", "0xOther"}, hasRequestId : BOOLEAN]

NoChallenge ==
  [present |-> FALSE, scheme |-> "none", x402Version |-> 0, network |-> "none",
   maxAmountRequired |-> 0, payTo |-> "none", hasRequestId |-> FALSE]

\* ExtendedPaymentRequirementsSchema: what the session layer lets through
SchemaValid(c) == c.present /\ c.scheme = "exact" /\ c.x402Version = 1

\* The plain challenge: priced at the cap, paid to the allowlisted server.
BaseChallenge ==
  [present |-> TRUE, scheme |-> "exact", x402Version |-> 1, network |-> "base-sepolia",
   maxAmountRequired |-> 1000, payTo |-> "0xServer", hasRequestId |-> TRUE]

\* The challenges enumerated: the plain one and each single deviation from it.
ChallengeInputs ==
  { BaseChallenge,
    [BaseChallenge EXCEPT !.maxAmountRequired = 2000],
    [BaseChallenge EXCEPT !.payTo = "0xOther"],
    [BaseChallenge EXCEPT !.maxAmountRequired = 2000, !.payTo = "0xOther"],
    [BaseChallenge EXCEPT !.network = "bogus"],
    [BaseChallenge EXCEPT !.hasRequestId = FALSE],
    [BaseChallenge EXCEPT !.present = FALSE],
    [BaseChallenge EXCEPT !.scheme = "other"],
    [BaseChallenge EXCEPT !.x402Version = 2] }

\* Well-formed challenges whose amount lies below, at and above the caps and
\* whose recipient is or is not the listed one.
GuardrailChallenges ==
  { [BaseChallenge EXCEPT !.maxAmountRequired = a, !.payTo = p] :
      a \in {999, 1000, 1001, 2000}, p \in {"0xServer", "0xOther"} }

\* handlePaymentRequired, lines 222-242: the error of the basic checks
BasicCheck(id, c) ==
  IF ~c.present THEN PlainError
  ELSE IF c.scheme # "exact" THEN PlainError
  ELSE IF c.x402Version # 1 THEN PlainError
  ELSE IF ~(c.hasRequestId /\ Truthy(id)) THEN PaymentError(PAYMENT_INVALID)
  ELSE NoError

\* Variant of LookupFails that accepts a challenge for an unknown request.
LookupNeverFails(rec) == FALSE

\* if (!matchingRequest)
LookupFails(rec) == rec = NoRecord

\* processPriceToAtomicAmount: knows the network or reports an error
PricerKnows(network) == network = "base-sepolia"

\* Variant of enforce whose cap also refuses an amount equal to it.
enforceAtCap(g, amount, payTo) ==
  IF g.maxPaymentPerCall # NoCap /\ amount >= g.maxPaymentPerCall
  THEN PaymentError(GUARDRAIL_VIOLATION)
  ELSE IF g.whitelistedServers # NoList /\ payTo \notin g.whitelistedServers
  THEN PaymentError(WHITELIST_VIOLATION)
  ELSE NoError

\* GuardrailsService.enforce: the error it throws, or NoError
enforce(g, amount, payTo) ==
  IF g.maxPaymentPerCall # NoCap /\ amount > g.maxPaymentPerCall
  THEN PaymentError(GUARDRAIL_VIOLATION)
  ELSE IF g.whitelistedServers # NoList /\ payTo \notin g.whitelistedServers
  THEN PaymentError(WHITELIST_VIOLATION)
  ELSE NoError

InitClient ==
  /\ store = [k \in Keys |-> NoRecord]
  /\ sendSt = [id \in Ids |-> "idle"]
  /\ rpc = [id \in Ids |-> "idle"]
  /\ chalp = [id \in Ids |-> NoChallenge]
  /\ resp = [id \in Ids |-> NoOutcome]
  /\ cliTrace = [id \in Ids |-> <<>>]
  /\ miss = [id \in Ids |-> FALSE]
  /\ demanded = [id \in Ids |-> 0]
  /\ notified = [id \in Ids |-> 0]
  /\ paid = [id \in Ids |-> FALSE]
  /\ used = 0

\* The intercepted transport.send is called with an outgoing request
\* (message.id = id, message.method set): the request is tracked, then the
\* original send starts.
SendStart(id) ==
  /\ sendSt[id] = "idle"
  /\ used < MaxEvents
  /\ used' = used + 1
  /\ store' = IF Truthy(id) THEN trackRequest(store, id) ELSE store
  /\ sendSt' = [sendSt EXCEPT ![id] = "sending"]
  /\ UNCHANGED <<config, rpc, chalp, resp, cliTrace, miss, demanded, notified, paid>>

\* The original send resolves or rejects: either way the request is marked.
SendComplete(id, ok) ==
  /\ sendSt[id] = "sending"
  /\ store' = IF Truthy(id) THEN clientMarkCompleted(store, id) ELSE store
  /\ sendSt' = [sendSt EXCEPT ![id] = IF ok THEN "sent" ELSE "failed"]
  /\ UNCHANGED <<config, rpc, chalp, resp, cliTrace, miss, demanded, notified, used, paid>>

\* handlePaymentRequired ends with o: the session layer will send the reply.
Respond(id, o) ==
  /\ rpc' = [rpc EXCEPT ![id] = "respond"]
  /\ resp' = [resp EXCEPT ![id] = o]
  /\ chalp' = [chalp EXCEPT ![id] = NoChallenge]

\* The code after the ledger steps up to the next await: enforce is called
\* when guardrails are configured, else the wallet is asked for the account.
AfterLedger(id, c) ==
  IF config.guardrails.configured
  THEN IF PricerKnows(c.network)
       THEN /\ rpc' = [rpc EXCEPT ![id] = "enforce"]
            /\ chalp' = [chalp EXCEPT ![id] = c]
            /\ UNCHANGED resp
       ELSE Respond(id, PaymentError(PAYMENT_INVALID))
  ELSE /\ rpc' = [rpc EXCEPT ![id] = "account"]
       /\ chalp' = [chalp EXCEPT ![id] = c]
       /\ UNCHANGED resp

\* A x402/payment_required request with JSON-RPC id `id` and params c reaches
\* handlePaymentRequired: basic checks, then the ledger lookup.
ChallengeArrives(id, c) ==
  /\ rpc[id] = "idle"
  /\ used < MaxEvents
  /\ used' = used + 1
  /\ demanded' = [demanded EXCEPT ![id] = @ + 1]
  /\ cliTrace' = [cliTrace EXCEPT ![id] = <<>>]
  /\ miss' = [miss EXCEPT ![id] =
        /\ SchemaValid(c)
        /\ config.auditStorage
        /\ c.hasRequestId
        /\ store[PendingKey(id)] = NoRecord]
  /\ IF BasicCheck(id, c) # NoError
     THEN Respond(id, BasicCheck(id, c))
     ELSE IF config.auditStorage
     THEN IF LookupFails(getPendingRequest(store, id))
          THEN Respond(id, PaymentError(PAYMENT_INVALID))
          ELSE /\ rpc' = [rpc EXCEPT ![id] = "update"]
               /\ chalp' = [chalp EXCEPT ![id] = c]
               /\ UNCHANGED resp
     ELSE AfterLedger(id, c)
  /\ UNCHANGED <<config, store, sendSt, notified, paid>>

\* updatePaymentStatus(requestId, 'pending', {completedAt}) completes.
UpdateStatus(id) ==
  /\ rpc[id] = "update"
  /\ store' = updatePaymentStatus(store, id, "pending", NoDetails)
  /\ AfterLedger(id, chalp[id])
  /\ UNCHANGED <<config, sendSt, cliTrace, miss, demanded, notified, used, paid>>

\* Variant of Enforce that does not wait for the guardrails' verdict.
EnforceNotAwaited(id) ==
  /\ rpc[id] = "enforce"
  /\ LET e == enforce(config.guardrails, chalp[id].maxAmountRequired, chalp[id].payTo)
     IN /\ cliTrace' = [cliTrace EXCEPT ![id] =
                Append(@, IF e = NoError THEN "enforce_ok" ELSE "enforce_fail")]
        /\ rpc' = [rpc EXCEPT ![id] = "account"]
        /\ UNCHANGED <<resp, chalp>>
  /\ UNCHANGED <<config, store, sendSt, miss, demanded, notified, used, paid>>

\* guardrailsService.enforce completes: a violation propagates unchanged.
Enforce(id) ==
  /\ rpc[id] = "enforce"
  /\ LET e == enforce(config.guardrails, chalp[id].maxAmountRequired, chalp[id].payTo)
     IN IF e = NoError
        THEN /\ cliTrace' = [cliTrace EXCEPT ![id] = Append(@, "enforce_ok")]
             /\ rpc' = [rpc EXCEPT ![id] = "account"]
             /\ UNCHANGED <<resp, chalp>>
        ELSE /\ cliTrace' = [cliTrace EXCEPT ![id] = Append(@, "enforce_fail")]
             /\ Respond(id, e)
  /\ UNCHANGED <<config, store, sendSt, miss, demanded, notified, used, paid>>

\* walletProvider.createAccount resolves (ok) or rejects.
CreateAccount(id, ok) ==
  /\ rpc[id] = "account"
  /\ cliTrace' = [cliTrace EXCEPT ![id] = Append(@, "account")]
  /\ IF ok
     THEN /\ rpc' = [rpc EXCEPT ![id] = "sign"]
          /\ UNCHANGED <<resp, chalp>>
     ELSE Respond(id, PlainError)
  /\ UNCHANGED <<config, store, sendSt, miss, demanded, notified, used, paid>>

\* exact.evm.createPayment signs the authorization; the proof is returned.
CreatePayment(id) ==
  /\ rpc[id] = "sign"
  /\ cliTrace' = [cliTrace EXCEPT ![id] = Append(@, "sign")]
  /\ Respond(id, Result)
  /\ paid' = [paid EXCEPT ![id] = TRUE]
  /\ UNCHANGED <<config, store, sendSt, miss, demanded, notified, used>>

\* The session layer sends the reply (message.id = id, no method) through the
\* intercepted transport.send, which marks request id completed afterwards.
\* The handling is over: its outcome and events are forgotten.
ResponseSent(id) ==
  /\ rpc[id] = "respond"
  /\ store' = IF Truthy(id) THEN clientMarkCompleted(store, id) ELSE store
  /\ rpc' = [rpc EXCEPT ![id] = "idle"]
  /\ resp' = [resp EXCEPT ![id] = NoOutcome]
  /\ cliTrace' = [cliTrace EXCEPT ![id] = <<>>]
  /\ miss' = [miss EXCEPT ![id] = FALSE]
  /\ UNCHANGED <<config, sendSt, chalp, demanded, notified, used, paid>>

\* params of a x402/payment_result notification
Notifications ==
  { [success |-> TRUE, transaction |-> "0xabc", payer |-> "0xPayer",
     errorReason |-> "none"],
    [success |-> FALSE, transaction |-> "none", payer |-> "none",
     errorReason |-> "settle failed"] }

\* Variant of handleNotification that opens a record for a request the
\* ledger has never seen.
handleNotificationUpserts(st, id, n) ==
  IF Truthy(id) /\ config.auditStorage
  THEN IF getPendingRequest(st, id) # NoRecord
       THEN updatePaymentStatus(st, id, IF n.success THEN "completed" ELSE "failed",
               [transactionHash |-> n.transaction, payerAddress |-> n.payer,
                errorReason |-> n.errorReason])
       ELSE [st EXCEPT ![PlainKey(id)] =
               [FreshRecord EXCEPT
                  !.paymentStatus = IF n.success THEN "completed" ELSE "failed"]]
  ELSE st

\* handleNotification for params.requestId = id
handleNotification(st, id, n) ==
  IF Truthy(id) /\ config.auditStorage /\ getPendingRequest(st, id) # NoRecord
  THEN updatePaymentStatus(st, id, IF n.success THEN "completed" ELSE "failed",
          [transactionHash |-> n.transaction, payerAddress |-> n.payer,
                errorReason |-> n.errorReason])
  ELSE st

\* A x402/payment_result notification for request id is handled.
NotificationArrives(id, n) ==
  /\ used < MaxEvents
  /\ used' = used + 1
  /\ notified' = [notified EXCEPT ![id] = @ + 1]
  /\ store' = handleNotification(store, id, n)
  /\ UNCHANGED <<config, sendSt, rpc, chalp, resp, cliTrace, miss, demanded, paid>>

SendSteps ==
  \E id \in Ids :
    \/ SendStart(id)
    \/ \E ok \in BOOLEAN : SendComplete(id, ok)

ResponderSteps ==
  \E id \in Ids :
    \/ \E c \in ChallengeInputs : ChallengeArrives(id, c)
    \/ UpdateStatus(id)
    \/ Enforce(id)
    \/ \E ok \in BOOLEAN : CreateAccount(id, ok)
    \/ CreatePayment(id)
    \/ ResponseSent(id)

NotificationSteps ==
  \E id \in Ids, n \in Notifications : NotificationArrives(id, n)

\* ---------------------------------------------------------------- registry
\* PaymentOptions of a decorator (payment absent: NoPaymentOptions)
NoPaymentOptions == [set |-> FALSE, amount |-> 0]

PaidAt(amount) == [set |-> TRUE, amount |-> amount]

\* What getMCPToolOptions / getMCPPromptOptions / getMCPResourceOptions return
\* for a method: the decorator's options, or undefined (NoOptions).
NoOptions == [set |-> FALSE, name |-> "none", payment |-> NoPaymentOptions, template |-> FALSE]

Options(name, payment, template) ==
  [set |-> TRUE, name |-> name, payment |-> payment, template |-> template]

\* A method of a handler class with the metadata its decorators attached.
Method(t, p, r) == [toolOptions |-> t, promptOptions |-> p, resourceOptions |-> r]

\* The methods enumerated: undecorated, one decorator of each kind, free and
\* priced (above, at and below zero), and methods carrying several decorators.
MethodInputs ==
  { Method(NoOptions, NoOptions, NoOptions),
    Method(Options("tool", NoPaymentOptions, FALSE), NoOptions, NoOptions),
    Method(Options("tool", PaidAt(1000), FALSE), NoOptions, NoOptions),
    Method(Options("tool", PaidAt(0), FALSE), NoOptions, NoOptions),
    Method(Options("tool", PaidAt(-1000), FALSE), NoOptions, NoOptions),
    Method(NoOptions, Options("prompt", PaidAt(1000), FALSE), NoOptions),
    Method(NoOptions, NoOptions, Options("resource", NoPaymentOptions, FALSE)),
    Method(NoOptions, NoOptions, Options("template", PaidAt(0), TRUE)),
    Method(Options("tool", NoPaymentOptions, FALSE), Options("prompt", PaidAt(1000), FALSE),
           NoOptions),
    Method(NoOptions, Options("prompt", NoPaymentOptions, FALSE),
           Options("resource", PaidAt(1000), FALSE)) }

\* Handler classes: the methods of the prototype in declaration order.
ClassInputs ==
  {<<m>> : m \in MethodInputs}
    \cup {<<Method(Options("tool", PaidAt(1000), FALSE), NoOptions, NoOptions),
             Method(NoOptions, Options("prompt", NoPaymentOptions, FALSE), NoOptions)>>}

\* The arguments of createSessionHandlers enumerated: one or two classes.
HandlerClassLists ==
  {<<c>> : c \in ClassInputs} \cup {<<c, d>> : c \in ClassInputs, d \in ClassInputs}

\* Number of decorator kinds whose metadata the method carries.
Annotations(m) ==
  (IF m.toolOptions.set THEN 1 ELSE 0) + (IF m.promptOptions.set THEN 1 ELSE 0)
    + (IF m.resourceOptions.set THEN 1 ELSE 0)

NoHandler == [name |-> "none", type |-> "none", paymentOptions |-> NoPaymentOptions,
              instance |-> 0]

\* extractHandlersFromInstance, loop body: the HandlerInfo pushed for method m
\* of instance k (the first of tool, prompt, resource whose options are set).
HandlerInfoOf(m, k) ==
  IF m.toolOptions.set
  THEN [name |-> m.toolOptions.name, type |-> "tool",
        paymentOptions |-> m.toolOptions.payment, instance |-> k]
  ELSE IF m.promptOptions.set
  THEN [name |-> m.promptOptions.name, type |-> "prompt",
        paymentOptions |-> m.promptOptions.payment, instance |-> k]
  ELSE [name |-> m.resourceOptions.name,
        type |-> IF m.resourceOptions.template THEN "resourceTemplate" ELSE "resource",
        paymentOptions |-> m.resourceOptions.payment, instance |-> k]

\* Variant of Pushed that leaves out a handler priced at zero or below.
PushedIfPriced(m) ==
  /\ Annotations(m) > 0
  /\ HandlerInfoOf(m, 0).paymentOptions.set => HandlerInfoOf(m, 0).paymentOptions.amount > 0

\* extractHandlersFromInstance: a method is pushed when one of the three
\* option lookups is truthy.
Pushed(m) == Annotations(m) > 0

\* extractHandlersFromInstance(instance) for the instance of class number k
extractHandlersFromInstance(class, k) ==
  LET kept == SelectSeq(class, Pushed)
  IN [i \in 1..Len(kept) |-> HandlerInfoOf(kept[i], k)]

RECURSIVE InstanceHandlers(_, _)
\* createSessionHandlers, outer loop: the handlers of classes k.. in order
InstanceHandlers(classes, k) ==
  IF k > Len(classes) THEN <<>>
  ELSE extractHandlersFromInstance(classes[k], k) \o InstanceHandlers(classes, k + 1)

EmptySession == [tools |-> <<>>, prompts |-> <<>>, resources |-> <<>>, resourceTemplates |-> <<>>]

OfType(hs, type) == SelectSeq(hs, LAMBDA h : h.type = type)

\* Variant of createSessionHandlers that refuses a method carrying more than
\* one kind of decorator.
createSessionHandlersStrict(classes) ==
  IF \E k \in 1..Len(classes) : \E i \in 1..Len(classes[k]) : Annotations(classes[k][i]) > 1
  THEN [outcome |-> [kind |-> "ConfigError", code |-> 0], handlers |-> EmptySession]
  ELSE [outcome |-> Result,
        handlers |-> [tools |-> OfType(InstanceHandlers(classes, 1), "tool"),
                      prompts |-> OfType(InstanceHandlers(classes, 1), "prompt"),
                      resources |-> OfType(InstanceHandlers(classes, 1), "resource"),
                      resourceTemplates |->
                        OfType(InstanceHandlers(classes, 1), "resourceTemplate")]]

\* HandlerRegistry.createSessionHandlers: it returns the four lists (no path
\* of it throws).
createSessionHandlers(classes) ==
  [outcome |-> Result,
   handlers |-> [tools |-> OfType(InstanceHandlers(classes, 1), "tool"),
                 prompts |-> OfType(InstanceHandlers(classes, 1), "prompt"),
                 resources |-> OfType(InstanceHandlers(classes, 1), "resource"),
                 resourceTemplates |->
                   OfType(InstanceHandlers(classes, 1), "resourceTemplate")]]

\* Every HandlerInfo of a SessionHandlers value.
ListedHandlers(sh) ==
  LET all == sh.tools \o sh.prompts \o sh.resources \o sh.resourceTemplates
  IN {all[i] : i \in 1..Len(all)}

\* ------------------------------------------------- InMemoryStorage
\* Keys and values are opaque strings; the keys are numbered, and a store of
\* size max is written under max+1 of them.
KeysFor(max) == 1..(max + 1)


\* const TTL = 86400 of PaymentAuditStore.ts, handed to storage.set as it is
TTL == 86400

\* config.ttl || 300000, in milliseconds
DefaultTtl == 300000

\* 24 hours in milliseconds
DayMs == 86400000

\* ttl argument of set: 0 stands for an omitted one
TtlInputs == {0, TTL}

\* What is written: audit records, always with TTL, and the values of other
\* users of the store, written without a ttl.
StoreWrites == {[value |-> "audit", ttl |-> TTL], [value |-> "other", ttl |-> 0]}

\* Date.now() moves on by a millisecond, by TTL milliseconds or by a day.
Advances == {1, TTL, DayMs}

\* configured sizes: the small ones are filled from empty, the store of
\* eleven starts full
SmallSizes == {1, 2, 3}

LargeSize == 11

\* Operations explored on a store that starts empty; half as many on the
\* store that starts full.
MaxMemOps == 4

MaxMemOpsFull == MaxMemOps \div 2

\* The position of key in the Map, 0 when it is absent.
IndexOf(m, key) ==
  IF \E i \in 1..Len(m) : m[i].key = key
  THEN CHOOSE i \in 1..Len(m) : m[i].key = key
  ELSE 0

KeysOf(m) == {m[i].key : i \in 1..Len(m)}

\* entry.ttl && Date.now() - entry.timestamp > entry.ttl
Expired(e, now) == e.ttl # 0 /\ now - e.timestamp > e.ttl

\* Map.delete
Remove(m, keys) == SelectSeq(m, LAMBDA e : e.key \notin keys)

\* Map.set: an existing key keeps its place, a new one goes last
Put(m, e) ==
  IF IndexOf(m, e.key) # 0 THEN [m EXCEPT ![IndexOf(m, e.key)] = e] ELSE Append(m, e)

\* InMemoryStorage.cleanupExpired
cleanupExpired(m, now) == SelectSeq(m, LAMBDA e : ~Expired(e, now))

\* Math.ceil(this.maxSize * 0.1)
ToEvict(max) == (max + 9) \div 10

\* Place of entry i after entries.sort by timestamp (a stable sort).
RankByTimestamp(m, i) ==
  Cardinality({j \in 1..Len(m) :
     \/ m[j].timestamp < m[i].timestamp
     \/ m[j].timestamp = m[i].timestamp /\ j < i})

\* Variant of evictOldest that removes the entries first inserted.
evictFirstInserted(m, max) ==
  Remove(m, {m[i].key : i \in {j \in 1..Len(m) : j <= ToEvict(max)}})

\* InMemoryStorage.evictOldest
evictOldest(m, max) ==
  Remove(m, {m[i].key : i \in {j \in 1..Len(m) : RankByTimestamp(m, j) < ToEvict(max)}})

\* The Map when set reaches this.storage.set(...)
BeforeInsert(m, max, now) ==
  LET cleaned == cleanupExpired(m, now)
  IN IF Len(cleaned) >= max THEN evictOldest(cleaned, max) ELSE cleaned

\* InMemoryStorage.set
Set(key, value, ttl) ==
  /\ memLeft > 0
  /\ memLeft' = memLeft - 1
  /\ evicted' = KeysOf(cleanupExpired(storage, clock)) \ KeysOf(BeforeInsert(storage, maxSize, clock))
  /\ storage' = Put(BeforeInsert(storage, maxSize, clock),
                    [key |-> key, value |-> value, timestamp |-> clock,
                     ttl |-> IF ttl # 0 THEN ttl ELSE DefaultTtl])
  /\ UNCHANGED <<clock, maxSize, got>>

\* InMemoryStorage.get
Get(key) ==
  /\ memLeft > 0
  /\ memLeft' = memLeft - 1
  /\ LET i == IndexOf(storage, key)
     IN IF i = 0
        THEN got' = "null" /\ UNCHANGED storage
        ELSE IF Expired(storage[i], clock)
        THEN got' = "null" /\ storage' = Remove(storage, {key})
        ELSE got' = storage[i].value /\ UNCHANGED storage
  /\ UNCHANGED <<clock, maxSize, evicted>>

\* InMemoryStorage.delete
Delete(key) ==
  /\ memLeft > 0
  /\ memLeft' = memLeft - 1
  /\ storage' = Remove(cleanupExpired(storage, clock), {key})
  /\ UNCHANGED <<clock, maxSize, got, evicted>>

\* Time passes.
Advance(d) ==
  /\ memLeft > 0
  /\ memLeft' = memLeft - 1
  /\ clock' = clock + d
  /\ UNCHANGED <<storage, maxSize, got, evicted>>

\* Full stores of LargeSize entries written at times 0..2, keys in insertion
\* order: all at once, oldest first, newest first, and with an early key
\* written again last.
FullStores ==
  { [i \in 1..LargeSize |->
       [key |-> i, value |-> "other", timestamp |-> f[i], ttl |-> DefaultTtl]] :
      f \in { [i \in 1..LargeSize |-> 1],
              [i \in 1..LargeSize |-> IF i <= 4 THEN 0 ELSE IF i <= 8 THEN 1 ELSE 2],
              [i \in 1..LargeSize |-> IF i <= 4 THEN 2 ELSE IF i <= 8 THEN 1 ELSE 0],
              [i \in 1..LargeSize |-> IF i = 1 THEN 2 ELSE 1],
              [i \in 1..LargeSize |-> IF i \in {3, 7} THEN 0 ELSE 1] } }

\* No storage instance is in play.
NoStorage ==
  /\ storage = <<>>
  /\ clock = 0
  /\ maxSize = 1
  /\ got = "null"
  /\ evicted = {}
  /\ memLeft = 0
  /\ peerSent = [id \in Ids |-> FALSE]

\* InMemoryStorage.create({maxSize}): empty, or after the writes that filled it
InitStorage ==
  /\ got = "null"
  /\ evicted = {}
  /\ peerSent = [id \in Ids |-> FALSE]
  /\ \/ maxSize \in SmallSizes /\ storage = <<>> /\ clock = 0 /\ memLeft = MaxMemOps
     \/ maxSize = LargeSize /\ storage \in FullStores /\ clock = 2
          /\ memLeft = MaxMemOpsFull

\* No session has been built.
NoRegistry ==
  /\ handlerClasses = <<>>
  /\ session = EmptySession
  /\ buildOutcome = NoOutcome
  /\ served = [r \in ReqIds |-> NoHandler]

\* A session is created: createSessionHandlers(handlerClasses) is called.
BuildSession ==
  /\ buildOutcome = NoOutcome
  /\ buildOutcome' = createSessionHandlers(handlerClasses).outcome
  /\ session' = createSessionHandlers(handlerClasses).handlers
  /\ UNCHANGED <<handlerClasses, served>>

\* Request r is dispatched to the wrapper created for the listed handler h;
\* the pricer accepts its amount or not.
InvokeRegistered(r, h, pricerOk) ==
  /\ buildOutcome = Result
  /\ h \in ListedHandlers(session)
  /\ Invoke(r, h.paymentOptions.set, pricerOk, h.paymentOptions.amount)
  /\ served' = [served EXCEPT ![r] = h]
  /\ UNCHANGED <<handlerClasses, session, buildOutcome>>

\* --------------------------------------------------------- specifications
Init ==
  InitServer /\ InitClient /\ NoRegistry /\ NoStorage /\ config = DefaultConfig /\ orch \in BOOLEAN

Next ==
  (WrapperSteps \/ SettleSteps \/ DirectCalls)
    /\ UNCHANGED <<cliVars, regVars, orch, cancelled, reply, memVars, peerSent>>

Spec == Init /\ [][Next]_vars

\* The pending external call of request r (the sub-RPC, verifyProof, the
\* handler body, executePayment, sendNotification) returns or throws and the
\* continuation of the callback runs.
Returns(r) ==
  /\ \/ \E e \in SubRpcErrors : SubRpcError(r, e)
     \/ \E p \in Payments \cup {NoPayment} : SubRpcReply(r, p)
     \/ \E res \in VerifyResults : FacilitatorVerify(r, res)
     \/ HandlerReturn(r)
     \/ \E e \in HandlerErrors : HandlerThrow(r, e)
     \/ \E res \in ExecuteResults : ExecuteReturn(r, res)
     \/ \E sent \in BOOLEAN : NotifyOkDone(r, sent)
     \/ \E sent \in BOOLEAN : NotifyFailDone(r, sent)
  /\ UNCHANGED <<cliVars, regVars, orch, cancelled, reply, memVars, peerSent>>

\* The wrapped handlers under the assumption that no external call stays
\* pending for ever: every promise the callback awaits settles, and the event
\* loop then resumes the callback.
NextLive ==
  (WrapperSteps \/ SettleSteps)
    /\ UNCHANGED <<cliVars, regVars, orch, cancelled, reply, memVars, peerSent>>

SpecLive == Init /\ [][NextLive]_vars /\ \A r \in ReqIds : WF_vars(Returns(r))

InitC == InitServer /\ InitClient /\ NoRegistry /\ NoStorage /\ config \in Configs /\ orch = TRUE

NextClient ==
  (SendSteps \/ ResponderSteps \/ NotificationSteps) /\ UNCHANGED <<srvVars, regVars, reply, memVars, peerSent>>

SpecClient == InitC /\ [][NextClient]_vars

\* The server with the session's cancellations.
\* A client without a ledger answering challenges under each guardrail option.
InitGuardrails ==
  InitServer /\ InitClient /\ NoRegistry /\ NoStorage /\ config \in GuardrailConfigs /\ orch = TRUE

NextGuardrails ==
  /\ \E id \in Ids :
       \/ \E c \in GuardrailChallenges : ChallengeArrives(id, c)
       \/ Enforce(id)
       \/ \E ok \in BOOLEAN : CreateAccount(id, ok)
       \/ CreatePayment(id)
       \/ ResponseSent(id)
  /\ UNCHANGED <<srvVars, regVars, reply, memVars, peerSent>>

SpecGuardrails == InitGuardrails /\ [][NextGuardrails]_vars

\* Protected invocations running concurrently on one session.  The handler
\* serving request r is priced AmountOf(r) and the client answers the
\* challenge of r with an authorization of its own, told apart by its nonce.
AmountOf(r) == 1000 * r

ProofOf(r) ==
  [signature |-> TRUE, x402Version |-> 1, scheme |-> "exact", network |-> ServerNetwork,
   nonce |-> r]

InitConcurrent ==
  InitServer /\ InitClient /\ NoRegistry /\ NoStorage /\ config = DefaultConfig /\ orch = TRUE

NextConcurrent ==
  /\ \E r \in ReqIds :
       \/ Invoke(r, TRUE, TRUE, AmountOf(r))
       \/ SubRpcReply(r, ProofOf(r))
       \/ \E res \in VerifyResults : FacilitatorVerify(r, res)
       \/ HandlerReturn(r)
       \/ \E e \in HandlerErrors : HandlerThrow(r, e)
       \/ \E res \in ExecuteResults : ExecuteReturn(r, res)
       \/ \E sent \in BOOLEAN : NotifyOkDone(r, sent)
       \/ \E sent \in BOOLEAN : NotifyFailDone(r, sent)
  /\ UNCHANGED <<cliVars, regVars, orch, cancelled, reply, memVars, peerSent>>

SpecConcurrent == InitConcurrent /\ [][NextConcurrent]_vars

\* Session building over each list of handler classes, and the first step of
\* the invocations dispatched to the wrappers of the listed handlers.
InitRegistry ==
  /\ InitServer /\ InitClient /\ NoStorage /\ config = DefaultConfig /\ orch = TRUE
  /\ handlerClasses \in HandlerClassLists
  /\ session = EmptySession
  /\ buildOutcome = NoOutcome
  /\ served = [r \in ReqIds |-> NoHandler]

NextRegistry ==
  \/ BuildSession /\ UNCHANGED <<srvVars, cliVars, reply, memVars, peerSent>>
  \/ /\ \E r \in ReqIds, h \in ListedHandlers(session), pricerOk \in BOOLEAN :
          InvokeRegistered(r, h, pricerOk)
     /\ UNCHANGED <<cliVars, orch, cancelled, reply, memVars, peerSent>>

SpecRegistry == InitRegistry /\ [][NextRegistry]_vars

\* Proof validation on its own: the reply of the sub-RPC is kept so that the
\* verdict on it can be compared with what it carried.
NextValidate ==
  /\ \E r \in ReqIds :
       \/ \E a \in Amounts : Invoke(r, TRUE, TRUE, a) /\ UNCHANGED reply
       \/ \E p \in Payments \cup {NoPayment} :
            SubRpcReply(r, p) /\ reply' = [reply EXCEPT ![r] = p]
       \/ \E res \in VerifyResults : FacilitatorVerify(r, res) /\ UNCHANGED reply
  /\ UNCHANGED <<cliVars, regVars, orch, cancelled, memVars, peerSent>>

SpecValidate == InitConcurrent /\ [][NextValidate]_vars

NextCancel ==
  \/ (WrapperSteps \/ SettleSteps \/ DirectCalls)
       /\ UNCHANGED <<cliVars, regVars, orch, cancelled, reply, memVars, peerSent>>
  \/ Cancellations /\ UNCHANGED <<cliVars, regVars, reply, memVars, peerSent>>

SpecCancel == Init /\ [][NextCancel]_vars

\* Two clients constructed with the same storage instance
\* (InMemoryStorage.getInstance()): this client, and a peer whose outgoing
\* requests are tracked in the same store.  Each session numbers its own
\* requests, so the two use the same ids.
PeerSend(id) ==
  /\ ~peerSent[id]
  /\ used < MaxEvents
  /\ used' = used + 1
  /\ store' = IF Truthy(id) THEN storePendingRequest(store, id) ELSE store
  /\ peerSent' = [peerSent EXCEPT ![id] = TRUE]
  /\ UNCHANGED <<config, sendSt, rpc, chalp, resp, cliTrace, miss, demanded, notified, paid>>

\* The peer's send completes: its markRequestCompleted runs on the shared store.
PeerSendComplete(id) ==
  /\ peerSent[id]
  /\ used < MaxEvents
  /\ used' = used + 1
  /\ store' = IF Truthy(id) THEN markRequestCompleted(store, id) ELSE store
  /\ UNCHANGED <<config, sendSt, rpc, chalp, resp, cliTrace, miss, demanded, notified, paid,
                 peerSent>>

PeerSteps == \E id \in Ids : PeerSend(id) \/ PeerSendComplete(id)

InitShared ==
  /\ InitServer /\ InitClient /\ NoRegistry /\ NoStorage /\ orch = TRUE
  /\ config \in {c \in Configs : c.auditStorage}

NextShared ==
  \/ PeerSteps /\ UNCHANGED <<srvVars, regVars, reply, memVars>>
  \/ (SendSteps \/ ResponderSteps \/ NotificationSteps)
       /\ UNCHANGED <<srvVars, regVars, reply, memVars, peerSent>>

SpecShared == InitShared /\ [][NextShared]_vars


\* An InMemoryStorage instance on its own: writes, reads, deletions and the
\* passing of time.  A store of size m is written under m+1 keys.
InitMem == InitServer /\ InitClient /\ NoRegistry /\ InitStorage /\ config = DefaultConfig /\ orch = TRUE

NextStorage ==
  /\ \/ \E key \in KeysFor(maxSize), w \in StoreWrites : Set(key, w.value, w.ttl)
     \/ \E key \in KeysFor(maxSize) : Get(key)
     \/ \E key \in KeysFor(maxSize) : Delete(key)
     \/ \E d \in Advances : Advance(d)
  /\ UNCHANGED <<srvVars, cliVars, regVars, reply, peerSent>>

SpecStorage == InitMem /\ [][NextStorage]_vars


\* ------------------------------------------------------------ properties
Occurs(r, ev) == \E i \in DOMAIN trace[r] : trace[r][i] = ev

\* position of the first occurrence of ev in the trace of r (0: none)
Pos(r, ev) ==
  IF Occurs(r, ev) THEN CHOOSE i \in DOMAIN trace[r] :
                          trace[r][i] = ev /\ \A j \in 1..(i-1) : trace[r][j] # ev
  ELSE 0

Before(r, a, b) == Occurs(r, a) /\ Occurs(r, b) /\ Pos(r, a) < Pos(r, b)

\* r is (or was) served by the wrapped callback of a protected handler
Protected(r) == pc[r] # "idle" /\ mode[r] = "wrapper" /\ prot[r]

SentNotifs(r) == {i \in DOMAIN notifs[r] : notifs[r][i].sent}

\* C1: in a protected invocation facilitator.executePayment is called only
\* after validatePayment succeeded and the handler body returned normally;
\* once the handler body has thrown, executePayment is never called and no
\* x402/payment_result notification is sent.
C1_SettleOnlyAfterHandlerSuccess ==
  \A r \in ReqIds : Protected(r) =>
    /\ (Occurs(r, "execute") \/ execArgs[r] # <<>>) =>
          /\ Before(r, "verified", "returned")
          /\ Before(r, "returned", "execute")
          /\ ~Occurs(r, "threw")
    /\ Occurs(r, "threw") =>
          /\ execArgs[r] = <<>>
          /\ notifs[r] = <<>>
          /\ ~Occurs(r, "execute")
          /\ ~Occurs(r, "notify")

C1_Witness ==
  \E r1, r2 \in ReqIds :
    /\ Protected(r1) /\ Occurs(r1, "execute") /\ pc[r1] = "done"
    /\ Protected(r2) /\ Occurs(r2, "threw") /\ pc[r2] = "done"

\* The six events C2 lists, in the claimed order.
Rank(ev) ==
  CASE ev = "challenge" -> 1
    [] ev = "response" -> 2
    [] ev = "verify" -> 3
    [] ev = "handler" -> 4
    [] ev = "execute" -> 5
    [] ev = "notify" -> 6
    [] OTHER -> 0

Listed(r) == SelectSeq(trace[r], LAMBDA ev : Rank(ev) > 0)

\* C2: for each requestId of a protected invocation the sub-RPC is sent, then
\* its response is received, then the facilitator verifies, then the handler
\* body runs, then executePayment is called, then the payment_result
\* notification is sent: every event is preceded by its predecessor in this
\* list and no event comes after a later one.
C2_StrictEventOrder ==
  \A r \in ReqIds : Protected(r) =>
    \A j \in DOMAIN Listed(r) :
      /\ \A i \in 1..(j-1) : Rank(Listed(r)[i]) <= Rank(Listed(r)[j])
      /\ Rank(Listed(r)[j]) < 6 => \A i \in 1..(j-1) : Listed(r)[i] # Listed(r)[j]
      /\ Rank(Listed(r)[j]) > 1 =>
            \E i \in 1..(j-1) : Rank(Listed(r)[i]) = Rank(Listed(r)[j]) - 1

C2_Witness ==
  \E r \in ReqIds :
    /\ Protected(r)
    /\ Listed(r) = <<"challenge", "response", "verify", "handler", "execute", "notify">>
    /\ Len(notifs[r]) = 1

\* C3 (as claimed): when the handler body of a protected invocation returned
\* normally, exactly one x402/payment_result notification is sent for it
\* (counted as sendNotification calls or as completed sends), bearing the
\* invocation's requestId, whatever executePayment and the send do.
C3_ExactlyOneNotification ==
  \A r \in ReqIds : (Protected(r) /\ pc[r] = "done" /\ Occurs(r, "returned")) =>
    /\ Len(notifs[r]) = 1 \/ Cardinality(SentNotifs(r)) = 1
    /\ \A i \in DOMAIN notifs[r] : notifs[r][i].requestId = r

FailureNotified(r) ==
  \E i \in DOMAIN notifs[r] : notifs[r][i].sent /\ ~notifs[r][i].success

C5_HandlerSeesNoPaymentFields ==
  \A r \in ReqIds : (Protected(r) /\ pc[r] = "handler") => ctx[r] = EmptyCtx

\* C6: when the wrapper callback has returned or raised, on whatever path,
\* the context has neither paymentProof nor paymentRequirements.
C6_ContextStrippedOnExit ==
  \A r \in ReqIds : (mode[r] = "wrapper" /\ pc[r] = "done") => ctx[r] = EmptyCtx

C6_Witness ==
  \E r1, r2 \in ReqIds :
    /\ Protected(r1) /\ pc[r1] = "done" /\ Occurs(r1, "verified")
    /\ outcome[r1].kind = "result"
    /\ Protected(r2) /\ pc[r2] = "done" /\ Occurs(r2, "verified")
    /\ outcome[r2].kind # "result"

\* C7: when validatePayment fails (sub-RPC error, malformed proof, facilitator
\* rejection or exception) the handler body never runs, executePayment is
\* never called, no payment_result notification is sent, and the invocation
\* fails with a PaymentError.
C7_ValidationFailureStopsEverything ==
  \A r \in ReqIds : (Protected(r) /\ Occurs(r, "invalid")) =>
    /\ pc[r] = "done"
    /\ ~Occurs(r, "handler") /\ ~Occurs(r, "execute") /\ ~Occurs(r, "notify")
    /\ execArgs[r] = <<>> /\ notifs[r] = <<>>
    /\ outcome[r].kind = "PaymentError"

C7_Witness ==
  \E r1, r2 \in ReqIds :
    /\ Protected(r1) /\ Occurs(r1, "invalid") /\ ~Occurs(r1, "verify")
    /\ Protected(r2) /\ Occurs(r2, "invalid") /\ Occurs(r2, "verify")

\* a wallet account was obtained or a payment signed while handling the
\* current challenge of id
WalletUsed(id) ==
  \E i \in DOMAIN cliTrace[id] : cliTrace[id][i] \in {"account", "sign"}

\* C8: a x402/payment_required request whose requestId has no record under
\* pending:<requestId> in the client ledger is answered with PAYMENT_INVALID
\* at once: the ledger is left as it was, no account is obtained and nothing
\* is signed, then or later in that handling.
C8_UnknownRequestRejected ==
  [][\A id \in Ids :
       /\ (rpc[id] = "idle" /\ rpc'[id] # "idle" /\ miss'[id]) =>
             /\ rpc'[id] = "respond"
             /\ store' = store
       /\ miss'[id] =>
             /\ resp'[id] = PaymentError(PAYMENT_INVALID)
             /\ rpc'[id] = "respond"
             /\ cliTrace'[id] = <<>>]_vars

C8_Witness ==
  \E id \in Ids :
    /\ Truthy(id) /\ miss[id] /\ rpc[id] = "respond"
    /\ resp[id] = PaymentError(PAYMENT_INVALID)
    /\ \E other \in Ids : store[PendingKey(other)] # NoRecord

\* C9: with guardrails configured, the wallet account is obtained and the
\* payment signed only after GuardrailsService.enforce completed without
\* error for that challenge; once enforce has raised, no account is obtained
\* and nothing is signed.
C9_GuardrailsBeforeSigning ==
  config.guardrails.configured =>
    \A id \in Ids :
      /\ \A i \in DOMAIN cliTrace[id] :
            cliTrace[id][i] \in {"account", "sign"} =>
               \E j \in 1..(i-1) : cliTrace[id][j] = "enforce_ok"
      /\ rpc[id] \in {"account", "sign"} =>
            \E j \in DOMAIN cliTrace[id] : cliTrace[id][j] = "enforce_ok"
      /\ (\E j \in DOMAIN cliTrace[id] : cliTrace[id][j] = "enforce_fail") =>
            /\ ~WalletUsed(id)
            /\ rpc[id] \in {"respond", "idle"}
            /\ resp[id].kind = "PaymentError"

C9_Witness ==
  /\ config.guardrails.configured
  /\ \E id \in Ids : cliTrace[id] = <<"enforce_ok", "account", "sign">>

\* C10 (as claimed): once an outgoing request id is terminal in the client
\* (its send has completed, no challenge is being handled, and its payment was
\* reconciled or never demanded), the backing store holds nothing under
\* pending:<id>.
C10_NoPendingEntryWhenTerminal ==
  \A id \in Ids :
    (/\ sendSt[id] \in {"sent", "failed"}
     /\ rpc[id] = "idle"
     /\ (notified[id] > 0 \/ demanded[id] = 0)) =>
       store[PendingKey(id)] = NoRecord

\* the record of id under the bare key shows the request completed and the
\* payment completed with the transaction hash of the success notification
FullyReconciled(rec) ==
  /\ rec.requestStatus = "completed"
  /\ rec.paymentStatus = "completed"
  /\ rec.transactionHash = "0xabc"

\* C11 (as claimed): in the happy path, once both the completion of the send
\* of request id and the reconciliation of its success notification have
\* happened, whichever comes last, the record under <id> has
\* requestStatus=completed, paymentStatus=completed and the notification's
\* transaction hash.
C11_HappyPathRecord ==
  [][\A id \in Ids :
       (/\ paid[id] /\ rpc[id] = "idle" /\ rpc'[id] = "idle"
        /\ \/ /\ sendSt[id] = "sent"
              /\ notified'[id] = notified[id] + 1
              /\ store'[PlainKey(id)].paymentStatus = "completed"
           \/ /\ sendSt[id] = "sending" /\ sendSt'[id] = "sent"
              /\ notified[id] > 0
              /\ store[PlainKey(id)].paymentStatus = "completed")
       => FullyReconciled(store'[PlainKey(id)])]_vars

\* extra.sendRequest rejected for r with an error that is no method-not-found
OtherSubRpcError(r) ==
  /\ rpcErr[r].raised
  /\ rpcErr[r].code # METHOD_NOT_FOUND
  /\ ~rpcErr[r].mnfMessage

\* C12 (as claimed): when the sub-RPC fails with an error that is not a
\* method-not-found error, a guardrail refusal 40210 or 40211 included, the
\* invocation fails with code PAYMENT_INVALID.
C12_SubRpcErrorIsPaymentInvalid ==
  \A r \in ReqIds : (Protected(r) /\ OtherSubRpcError(r)) =>
    /\ pc[r] = "done"
    /\ outcome[r].kind = "PaymentError"
    /\ outcome[r].code = PAYMENT_INVALID

\* C12 (amended): when the sub-RPC fails with an error that is not a
\* method-not-found error, the invocation fails with a PaymentError that
\* carries the error's own code when it has one (40210, 40211 pass through)
\* and PAYMENT_INVALID when it has none.
C12_SubRpcErrorKeepsCode ==
  \A r \in ReqIds : (Protected(r) /\ OtherSubRpcError(r)) =>
    /\ pc[r] = "done"
    /\ outcome[r].kind = "PaymentError"
    /\ outcome[r].code = IF rpcErr[r].code # 0 THEN rpcErr[r].code ELSE PAYMENT_INVALID

C12_Witness ==
  \E r1, r2 \in ReqIds :
    /\ Protected(r1) /\ OtherSubRpcError(r1) /\ rpcErr[r1].code = GUARDRAIL_VIOLATION
    /\ outcome[r1].code = GUARDRAIL_VIOLATION
    /\ Protected(r2) /\ OtherSubRpcError(r2) /\ rpcErr[r2].code = 0
    /\ outcome[r2].code = PAYMENT_INVALID

\* the record of id under either of its keys
Failed(rec) == rec.paymentStatus = "failed" /\ rec.errorReason # "none"

\* C13 (as claimed): when the client's guardrails reject the challenge of
\* request id because the per-call cap is exceeded, the ledger record of id
\* ends with paymentStatus=failed and an errorReason.
C13_GuardrailRejectionRecorded ==
  \A id \in Ids :
    (/\ config.auditStorage
     /\ rpc[id] = "respond"
     /\ resp[id] = PaymentError(GUARDRAIL_VIOLATION)) =>
       Failed(store[PlainKey(id)]) \/ Failed(store[PendingKey(id)])

\* extra.sendRequest rejected for r with a method-not-found error
MethodNotFound(r) ==
  rpcErr[r].raised /\ (rpcErr[r].code = METHOD_NOT_FOUND \/ rpcErr[r].mnfMessage)

\* C14: when the sub-RPC fails with code -32601 or with a message saying
\* method not found, the invocation fails with PAYMENT_REQUIRED whose details
\* carry amount, asset, paymentAddress and network; the handler body does not
\* run and nothing is settled.
C14_MethodNotFoundIsPaymentRequired ==
  \A r \in ReqIds : (Protected(r) /\ MethodNotFound(r)) =>
    /\ pc[r] = "done"
    /\ outcome[r].kind = "PaymentError"
    /\ outcome[r].code = PAYMENT_REQUIRED
    /\ outcome[r].details =
         [amount |-> reqmt[r].maxAmountRequired, asset |-> ServerAsset,
          paymentAddress |-> ServerPayTo, network |-> ServerNetwork]
    /\ ~Occurs(r, "handler") /\ ~Occurs(r, "execute")
    /\ execArgs[r] = <<>> /\ notifs[r] = <<>>

C14_Witness ==
  \E r1, r2 \in ReqIds :
    /\ Protected(r1) /\ rpcErr[r1].raised /\ rpcErr[r1].code = METHOD_NOT_FOUND
    /\ Protected(r2) /\ rpcErr[r2].raised /\ rpcErr[r2].code # METHOD_NOT_FOUND
    /\ rpcErr[r2].mnfMessage
    /\ outcome[r1].code = PAYMENT_REQUIRED /\ outcome[r2].code = PAYMENT_REQUIRED

\* facilitator.executePayment was called for r and did not report success:
\* the first notification of r is then the failure notification
ExecuteFailed(r) ==
  /\ execArgs[r] # <<>>
  /\ notifs[r] # <<>>
  /\ ~notifs[r][1].success

\* C15 (as claimed): whenever executePayment returns success=false or throws,
\* the server sends a payment_result notification with success=false, an
\* errorReason and the invocation's requestId, and afterwards the invocation
\* fails with PAYMENT_EXECUTION_FAILED (no result is returned).
C15_SettlementFailureReported ==
  \A r \in ReqIds : (Protected(r) /\ pc[r] = "done" /\ ExecuteFailed(r)) =>
    /\ notifs[r][1].hasErrorReason
    /\ notifs[r][1].requestId = r
    /\ outcome[r] = PaymentError(PAYMENT_EXECUTION_FAILED)

\* C16: the sub-RPC of a protected invocation with id r is built with id = r
\* and params.requestId = r, and every payment_result notification of that
\* invocation, success or failure, has params.requestId = r.
C16_RequestIdRoundTrips ==
  \A r \in ReqIds :
    /\ \A i \in DOMAIN chal[r] :
          chal[r][i].id = r /\ chal[r][i].params.requestId = r
    /\ \A i \in DOMAIN notifs[r] : notifs[r][i].requestId = r

C16_Witness ==
  \E r1, r2 \in ReqIds :
    /\ r1 # r2 /\ Protected(r1) /\ Protected(r2)
    /\ Len(chal[r1]) = 1 /\ Len(chal[r2]) = 1
    /\ \E i \in DOMAIN notifs[r1] : notifs[r1][i].success
    /\ \E i \in DOMAIN notifs[r2] : ~notifs[r2][i].success

\* C17: an invocation of a handler registered without paymentOptions sends
\* no sub-RPC, verifies and settles nothing, sends no notification, and
\* returns the handler's result, with or without a payment orchestrator in
\* the context.
C17_FreeHandlerUntouched ==
  \A r \in ReqIds : (mode[r] = "wrapper" /\ pc[r] # "idle" /\ ~prot[r]) =>
    /\ chal[r] = <<>> /\ notifs[r] = <<>> /\ execArgs[r] = <<>>
    /\ \A i \in DOMAIN trace[r] : trace[r][i] \in {"handler", "returned", "threw"}
    /\ Occurs(r, "returned") => (pc[r] = "done" /\ outcome[r] = Result)

C17_Witness ==
  \E r \in ReqIds :
    /\ ~orch /\ mode[r] = "wrapper" /\ ~prot[r]
    /\ pc[r] = "done" /\ outcome[r] = Result

\* C18 (as claimed): once the cancellation signal of the originating RPC was
\* raised before executePayment was called, executePayment is never called
\* for that invocation.
C18_NoSettlementAfterCancel ==
  [][\A r \in ReqIds : cancelled[r] => execArgs'[r] = execArgs[r]]_vars

\* C19: enforce(amount, payTo) raises GUARDRAIL_VIOLATION iff a cap is
\* configured and amount > cap (an amount equal to the cap passes); otherwise
\* it raises WHITELIST_VIOLATION iff an allowlist is configured and payTo is
\* not in it; otherwise it returns normally.  With both checks violated the
\* cap error is the one raised.
CapViolated(id) ==
  /\ config.guardrails.maxPaymentPerCall # NoCap
  /\ chalp[id].maxAmountRequired > config.guardrails.maxPaymentPerCall

ListViolated(id) ==
  /\ config.guardrails.whitelistedServers # NoList
  /\ chalp[id].payTo \notin config.guardrails.whitelistedServers

C19_EnforceContract ==
  [][\A id \in Ids :
       (rpc[id] = "enforce" /\ rpc'[id] # "enforce") =>
         /\ (rpc'[id] = "respond" /\ resp'[id] = PaymentError(GUARDRAIL_VIOLATION))
              <=> CapViolated(id)
         /\ (rpc'[id] = "respond" /\ resp'[id] = PaymentError(WHITELIST_VIOLATION))
              <=> (~CapViolated(id) /\ ListViolated(id))
         /\ (rpc'[id] = "account" /\ resp'[id] = NoOutcome)
              <=> (~CapViolated(id) /\ ~ListViolated(id))]_vars

\* enforce has returned normally for an amount equal to the configured cap and
\* a listed recipient.
C19_Witness ==
  \E id \in Ids :
    /\ rpc[id] = "account"
    /\ cliTrace[id] = <<"enforce_ok">>
    /\ config.guardrails.maxPaymentPerCall = chalp[id].maxAmountRequired
    /\ chalp[id].payTo \in config.guardrails.whitelistedServers

\* C20: within one protected invocation the server sends at most one
\* x402/payment_required sub-RPC, asks the facilitator to verify at most once
\* and to execute at most once; after a failure no step of the invocation
\* (challenge, verification, handler body, execution) is attempted again.
Occurrences(s, e) == Cardinality({i \in 1..Len(s) : s[i] = e})

HasFailed(r) ==
  \/ caught[r] # NoError
  \/ pc[r] = "done" /\ outcome[r] # Result

C20_NothingRetried ==
  [][\A r \in ReqIds :
       /\ Len(chal'[r]) <= 1
       /\ Occurrences(trace'[r], "challenge") <= 1
       /\ Occurrences(trace'[r], "verify") <= 1
       /\ Len(execArgs'[r]) <= 1
       /\ Occurrences(trace'[r], "execute") <= 1
       /\ HasFailed(r) =>
            /\ chal'[r] = chal[r]
            /\ execArgs'[r] = execArgs[r]
            /\ \A e \in {"challenge", "verify", "handler", "execute"} :
                 Occurrences(trace'[r], e) = Occurrences(trace[r], e)]_vars

\* A protected invocation went through challenge, verification, handler and
\* execution once each and ended in the settlement failure.
C20_Witness ==
  \E r \in ReqIds :
    /\ pc[r] = "done"
    /\ mode[r] = "wrapper"
    /\ outcome[r] = PaymentError(PAYMENT_EXECUTION_FAILED)
    /\ Len(chal[r]) = 1
    /\ Len(execArgs[r]) = 1
    /\ Occurrences(trace[r], "verify") = 1
    /\ Occurrences(trace[r], "handler") = 1

\* C21: with invocations of different requestIds interleaved on one session,
\* executePayment of each invocation is called with exactly the proof and the
\* requirements the facilitator accepted for that invocation, and each
\* payment_result notification carries the requestId of its own invocation.
C21_ConcurrentInvocationsIsolated ==
  [][\A r \in ReqIds :
       /\ (pc[r] = "verify" /\ pc'[r] = "handler") =>
            ctx'[r] = [paymentProof |-> pend[r], paymentRequirements |-> reqmt[r]]
       /\ \A i \in 1..Len(execArgs'[r]) :
            /\ execArgs'[r][i].proof = ProofOf(r)
            /\ execArgs'[r][i].requirements = assemblePaymentRequirements(AmountOf(r))
       /\ \A i \in 1..Len(notifs'[r]) : notifs'[r][i].requestId = r]_vars

\* Two invocations are in settlement at once, one suspended in executePayment
\* and one in its notification, each with its own proof and requirements.
C21_Witness ==
  \E r1 \in ReqIds, r2 \in ReqIds :
    /\ r1 # r2
    /\ pc[r1] = "execute" /\ pc[r2] = "notify_ok"
    /\ Len(execArgs[r1]) = 1 /\ Len(execArgs[r2]) = 1
    /\ execArgs[r1][1].proof # execArgs[r2][1].proof
    /\ execArgs[r1][1].requirements # execArgs[r2][1].requirements

\* C22: a handler descriptor whose paymentOptions.amount is <= 0 is rejected
\* when handlers are registered: no handler priced at zero or below is in the
\* lists session building returns, and no challenge is issued for an amount
\* of zero or below.
C22_NonPositiveAmountRejected ==
  /\ \A h \in ListedHandlers(session) : h.paymentOptions.set => h.paymentOptions.amount > 0
  /\ \A r \in ReqIds : \A i \in 1..Len(chal[r]) : chal[r][i].params.maxAmountRequired > 0

\* C22 as the code has it: session building does not look at the amount.
\* Every method with a single decorator is listed under that decorator's kind
\* with its payment options unchanged, whatever the amount, and the wrapper of
\* a priced handler sends the challenge for the amount the pricer accepted.
PaymentOf(m) ==
  IF m.toolOptions.set THEN m.toolOptions.payment
  ELSE IF m.promptOptions.set THEN m.promptOptions.payment
  ELSE m.resourceOptions.payment

C22_AmountNotValidated ==
  /\ buildOutcome = Result =>
       \A k \in 1..Len(handlerClasses) : \A i \in 1..Len(handlerClasses[k]) :
         Annotations(handlerClasses[k][i]) = 1 =>
           \E h \in ListedHandlers(session) :
             /\ h.instance = k
             /\ h.paymentOptions = PaymentOf(handlerClasses[k][i])
  /\ \A r \in ReqIds :
       /\ (served[r].paymentOptions.set /\ pc[r] = "await_proof") => Len(chal[r]) = 1
       /\ \A i \in 1..Len(chal[r]) :
            /\ served[r].paymentOptions.set
            /\ chal[r][i].params.maxAmountRequired = served[r].paymentOptions.amount

\* A handler priced at zero or below is listed, request r was dispatched to
\* its wrapper and the challenge for it is out.
C22_Witness ==
  \E r \in ReqIds :
    /\ served[r] \in ListedHandlers(session)
    /\ served[r].paymentOptions.set
    /\ served[r].paymentOptions.amount <= 0
    /\ pc[r] = "await_proof"
    /\ Len(chal[r]) = 1

\* C23: a callable that carries more than one kind annotation makes session
\* building fail with a configuration error; it is never registered silently
\* under one of its kinds.
SeveralKinds ==
  UNION { { <<k, i>> : i \in {j \in 1..Len(handlerClasses[k]) :
                                 Annotations(handlerClasses[k][j]) > 1} } :
          k \in 1..Len(handlerClasses) }

C23_MultipleAnnotationsRejected ==
  (buildOutcome # NoOutcome /\ SeveralKinds # {}) =>
    /\ buildOutcome.kind = "ConfigError"
    /\ ListedHandlers(session) = {}

\* C23 as the code has it: session building never fails, and a callable with
\* several kind annotations is listed once, under the first of tool, prompt,
\* resource it carries, with the name and payment options of that annotation.
FirstKind(m) ==
  IF m.toolOptions.set THEN "tool"
  ELSE IF m.promptOptions.set THEN "prompt"
  ELSE IF m.resourceOptions.template THEN "resourceTemplate" ELSE "resource"

FirstName(m) ==
  IF m.toolOptions.set THEN m.toolOptions.name
  ELSE IF m.promptOptions.set THEN m.promptOptions.name
  ELSE m.resourceOptions.name

InstanceCount(k) ==
  Cardinality({j \in 1..Len(session.tools) : session.tools[j].instance = k})
    + Cardinality({j \in 1..Len(session.prompts) : session.prompts[j].instance = k})
    + Cardinality({j \in 1..Len(session.resources) : session.resources[j].instance = k})
    + Cardinality({j \in 1..Len(session.resourceTemplates) :
                     session.resourceTemplates[j].instance = k})

C23_FirstKindWins ==
  buildOutcome # NoOutcome =>
    /\ buildOutcome = Result
    /\ \A k \in 1..Len(handlerClasses) :
         InstanceCount(k) =
           Cardinality({i \in 1..Len(handlerClasses[k]) :
                          Annotations(handlerClasses[k][i]) > 0})
    /\ \A ki \in SeveralKinds :
         LET m == handlerClasses[ki[1]][ki[2]]
         IN \E h \in ListedHandlers(session) :
              /\ h.instance = ki[1]
              /\ h.type = FirstKind(m)
              /\ h.name = FirstName(m)
              /\ h.paymentOptions = PaymentOf(m)

\* A session was built from a class with a method annotated both as a free
\* tool and as a priced prompt: it is listed as the free tool.
C23_Witness ==
  /\ buildOutcome = Result
  /\ \E ki \in SeveralKinds :
       /\ handlerClasses[ki[1]][ki[2]].toolOptions.set
       /\ handlerClasses[ki[1]][ki[2]].promptOptions.payment.set
       /\ \E j \in 1..Len(session.tools) :
            /\ session.tools[j].instance = ki[1]
            /\ ~session.tools[j].paymentOptions.set
       /\ \A j \in 1..Len(session.prompts) : session.prompts[j].instance # ki[1]

\* C24: for every outgoing message with an id and a method (ids being
\* non-negative integers), a ledger record for the id is stored under
\* pending:<id> before the underlying send is invoked, and when the underlying
\* send completes, succeeding or throwing, markRequestCompleted(id) is applied.
C24_TrackedAroundSend ==
  [][\A id \in Ids :
       config.auditStorage =>
         /\ (sendSt[id] = "idle" /\ sendSt'[id] = "sending") =>
              store'[PendingKey(id)] = FreshRecord
         /\ (sendSt[id] = "sending" /\ sendSt'[id] \in {"sent", "failed"}) =>
              store' = markRequestCompleted(store, id)]_vars

\* C25: the requestStatus of the record stored under <id> is monotone: across
\* markRequestCompleted, updatePaymentStatus and notification reconciliation
\* it never changes from completed back to pending.
C25_RequestStatusMonotone ==
  [][\A id \in Ids :
       store[PlainKey(id)].requestStatus = "completed" =>
         store'[PlainKey(id)].requestStatus = "completed"]_vars

\* C26: in every reachable ledger state, every record stored under
\* pending:<id> has requestStatus = pending and paymentStatus = pending, and
\* every record stored under <id> has at least one of the two different from
\* pending.
C26_KeyMatchesStatus ==
  \A id \in Ids :
    /\ store[PendingKey(id)] # NoRecord =>
         /\ store[PendingKey(id)].requestStatus = "pending"
         /\ store[PendingKey(id)].paymentStatus = "pending"
    /\ store[PlainKey(id)] # NoRecord =>
         \/ store[PlainKey(id)].requestStatus # "pending"
         \/ store[PlainKey(id)].paymentStatus # "pending"

\* The record of id was updated in place under pending:<id> by
\* updatePaymentStatus('pending') and a reconciled copy sits under <id>.
C26_Witness ==
  \E id \in Ids :
    /\ store[PendingKey(id)].paymentCompletedAt
    /\ store[PendingKey(id)].paymentStatus = "pending"
    /\ store[PlainKey(id)].paymentStatus = "completed"

\* C27: proof validation checks, in this order, signature present,
\* x402Version = 1, scheme = 'exact', network = requirements.network, and fails
\* at the first violated check with PAYMENT_INVALID, INVALID_REQUEST,
\* PAYMENT_INVALID, PAYMENT_INVALID respectively; the facilitator is asked
\* only when all four checks pass.
FirstViolation(p, req) ==
  IF p = NoPayment THEN PAYMENT_INVALID
  ELSE IF ~p.signature THEN PAYMENT_INVALID
  ELSE IF p.x402Version # 1 THEN INVALID_REQUEST
  ELSE IF p.scheme # "exact" THEN PAYMENT_INVALID
  ELSE IF p.network # req.network THEN PAYMENT_INVALID
  ELSE 0

C27_StructuralChecksInOrder ==
  [][\A r \in ReqIds :
       (pc[r] = "await_proof" /\ pc'[r] # "await_proof") =>
         IF FirstViolation(reply'[r], reqmt[r]) # 0
         THEN /\ pc'[r] = "done"
              /\ outcome'[r] = PaymentError(FirstViolation(reply'[r], reqmt[r]))
              /\ "verify" \notin {trace'[r][i] : i \in 1..Len(trace'[r])}
         ELSE /\ pc'[r] = "verify"
              /\ pend'[r] = reply'[r]
              /\ Occurrences(trace'[r], "verify") = 1]_vars

\* A reply without signature and with a wrong version was refused for the
\* missing signature, without asking the facilitator.
C27_Witness ==
  \E r \in ReqIds :
    /\ pc[r] = "done"
    /\ reply[r] # NoPayment
    /\ ~reply[r].signature
    /\ reply[r].x402Version # 1
    /\ outcome[r] = PaymentError(PAYMENT_INVALID)
    /\ Occurrences(trace[r], "verify") = 0

\* C28: validatePayment stores paymentProof and paymentRequirements into ctx
\* if and only if the facilitator returned valid for that proof; on every
\* failing path of validatePayment, and while it is still under way, ctx is
\* without the two fields.
C28_ContextStoredIffVerified ==
  [][\A r \in ReqIds :
       (mode'[r] = "wrapper" /\ pc[r] \in {"idle", "await_proof", "verify"}) =>
         IF pc[r] = "verify" /\ pc'[r] = "handler"
         THEN /\ ctx'[r] = [paymentProof |-> pend[r], paymentRequirements |-> reqmt[r]]
              /\ trace'[r][Len(trace'[r]) - 1] = "verified"
         ELSE ctx'[r] = EmptyCtx]_vars

\* The facilitator accepted the proof of r and the handler body is running
\* with the proof and the requirements in its context; the validation of
\* another request failed at the facilitator and left its context empty.
C28_Witness ==
  \E r \in ReqIds, q \in ReqIds :
    /\ pc[r] = "handler" /\ prot[r]
    /\ ctx[r].paymentProof # NoPayment
    /\ ctx[r].paymentRequirements = reqmt[r]
    /\ pc[q] = "done"
    /\ Occurrences(trace[q], "verify") = 1
    /\ Occurrences(trace[q], "verified") = 0
    /\ ctx[q] = EmptyCtx

\* C29: if validatePayment or settlePayment raises a PaymentError, the
\* wrapper raises that same error unchanged; for every error thrown by the
\* handler body, the wrapper raises a generic non-payment error whose message
\* is 'Handler execution failed: <msg>'.
FailsFrom(r, at) ==
  /\ mode[r] = "wrapper"
  /\ pc[r] = at
  /\ pc'[r] = "done"
  /\ outcome'[r] # Result

OrchestratorErrorUnchanged(r) ==
  /\ FailsFrom(r, "await_proof") => outcome'[r].kind = "PaymentError"
  /\ FailsFrom(r, "verify") => outcome'[r] = PaymentError(PAYMENT_INVALID)
  /\ (FailsFrom(r, "notify_fail") /\ notifs'[r][Len(notifs'[r])].sent) =>
       outcome'[r] = SettleRethrow(caught[r])

PricerFailed(r) ==
  /\ orch
  /\ pc[r] = "idle" /\ pc'[r] = "done"
  /\ mode'[r] = "wrapper" /\ prot'[r]

NothingStarted(r) ==
  /\ chal[r] = <<>>
  /\ trace[r] = <<>>
  /\ execArgs[r] = <<>>
  /\ notifs[r] = <<>>

C30_PricerFailureIsConfigInvalid ==
  [][\A r \in ReqIds :
       PricerFailed(r) => (outcome'[r].kind = "ConfigError" /\ NothingStarted(r)')]_vars

\* C30 as the code has it: the pricer's failure is an ordinary error, which
\* the wrapper turns into its generic 'Handler execution failed' error.
C30_PricerFailureIsGenericError ==
  [][\A r \in ReqIds :
       PricerFailed(r) =>
         /\ outcome'[r] = ErrorSaying("Handler execution failed: Failed to process price")
         /\ NothingStarted(r)']_vars

\* A protected invocation ended on the pricer's failure with nothing sent and
\* nothing run.
C30_Witness ==
  \E r \in ReqIds :
    /\ orch /\ pc[r] = "done" /\ prot[r] /\ mode[r] = "wrapper"
    /\ outcome[r] = ErrorSaying("Handler execution failed: Failed to process price")
    /\ NothingStarted(r)

\* A x402/payment_required request that lacks payTo, maxAmountRequired,
\* network or requestId, or names another scheme or version.
Malformed(c) ==
  ~c.present \/ ~c.hasRequestId \/ c.scheme # "exact" \/ c.x402Version # 1

\* C31: the responder, given a payment_required request that lacks payTo,
\* maxAmountRequired, network or requestId, or whose scheme is not 'exact', or
\* whose x402Version is not 1, fails with 40201 PAYMENT_INVALID, obtains no
\* signing account, signs nothing and leaves the ledger unchanged.
C31_MalformedChallengeIsPaymentInvalid ==
  [][\A id \in Ids : \A c \in ChallengeInputs :
       (Malformed(c) /\ ChallengeArrives(id, c)) =>
          /\ rpc'[id] = "respond"
          /\ resp'[id] = PaymentError(PAYMENT_INVALID)
          /\ cliTrace'[id] = <<>>
          /\ paid' = paid
          /\ store' = store]_vars

\* The ledger holds nothing for request id.
Unrecorded(st, id) == st[PendingKey(id)] = NoRecord /\ st[PlainKey(id)] = NoRecord

PaymentStatuses == {"pending", "completed", "failed"}

DetailInputs ==
  [transactionHash : {"none", "0xabc"}, payerAddress : {"none", "0xPayer"},
   errorReason : {"none", "settle failed"}]

\* C32: a payment_result notification whose requestId has no ledger record is
\* ignored, every ledger entry staying as it was; likewise markRequestCompleted
\* and updatePaymentStatus on an id with no pending record leave the store
\* unchanged.
C32_MissingRecordIgnored ==
  /\ [](\A id \in Ids :
          store[PendingKey(id)] = NoRecord =>
            /\ markRequestCompleted(store, id) = store
            /\ \A status \in PaymentStatuses : \A d \in DetailInputs :
                 updatePaymentStatus(store, id, status, d) = store)
  /\ [][\A id \in Ids : \A n \in Notifications :
          (Unrecorded(store, id) /\ NotificationArrives(id, n)) => store' = store]_vars

\* A notification for request 1 was handled by a client that keeps a ledger
\* and has never sent request 1.
C32_Witness ==
  /\ config.auditStorage
  /\ notified[1] > 0
  /\ Unrecorded(store, 1)
  /\ sendSt[1] = "idle"

\* The record carries what the notification n reports.
Reconciled(rec, n) ==
  /\ rec.paymentStatus = IF n.success THEN "completed" ELSE "failed"
  /\ n.transaction # "none" => rec.transactionHash = n.transaction
  /\ n.payer # "none" => rec.payerAddress = n.payer
  /\ n.errorReason # "none" => rec.errorReason = n.errorReason

\* C33: a payment_result notification for request id that arrives after
\* markRequestCompleted(id) was applied is still reconciled: the record under
\* <id> gets paymentStatus completed on success and failed otherwise, with the
\* notification's transaction hash, payer and errorReason attached when present.
C33_LateNotificationReconciled ==
  [][\A id \in Ids : \A n \in Notifications :
       (/\ sendSt[id] \in {"sent", "failed"}
        /\ store[PlainKey(id)] # NoRecord
        /\ NotificationArrives(id, n)) =>
          Reconciled(store'[PlainKey(id)], n)]_vars

\* Request 1 was sent and marked completed, and the success notification that
\* came afterwards is on its record.
C33_Witness ==
  /\ config.auditStorage
  /\ sendSt[1] = "sent"
  /\ notified[1] > 0
  /\ store[PlainKey(1)].paymentStatus = "completed"
  /\ store[PlainKey(1)].transactionHash = "0xabc"
  /\ store[PlainKey(1)].payerAddress = "0xPayer"

\* The timestamp the Map m holds for key.
TimestampOf(m, key) == m[IndexOf(m, key)].timestamp

\* C34: after every completed set the store holds at most maxSize entries;
\* a set that finds the store at capacity once the expired entries are purged
\* removes ceil(0.1 * maxSize) entries with the smallest timestamps before it
\* inserts, and never removes an entry while keeping one with an older
\* timestamp.
C34_EvictionKeepsBound ==
  [][\A i \in 1..Len(storage') : \A ttl \in TtlInputs :
       (/\ clock' = clock
        /\ got' = got
        /\ storage'[i].timestamp = clock
        /\ storage'[i].ttl = (IF ttl # 0 THEN ttl ELSE DefaultTtl)
        /\ Set(storage'[i].key, storage'[i].value, ttl)) =>
         LET cleaned == cleanupExpired(storage, clock)
         IN /\ Len(storage') <= maxSize
            /\ evicted' \subseteq KeysOf(cleaned)
            /\ Cardinality(evicted') =
                 IF Len(cleaned) >= maxSize THEN ToEvict(maxSize) ELSE 0
            /\ \A e \in evicted' : \A k \in KeysOf(cleaned) \ evicted' :
                 TimestampOf(cleaned, e) <= TimestampOf(cleaned, k)
            /\ KeysOf(storage') = (KeysOf(cleaned) \ evicted') \cup {storage'[i].key}]_vars

\* A set on a store of eleven has evicted two entries, one of them written
\* again after entries that stay; and a set on a store of two has evicted the
\* older of its entries.
C34_Witness ==
  \/ /\ maxSize = LargeSize
     /\ Cardinality(evicted) = 2
     /\ Len(storage) = LargeSize - 1
     /\ \E i \in 1..Len(storage) : storage[i].key \notin evicted /\ storage[i].key < 7
  \/ /\ maxSize = 2
     /\ evicted = {1}
     /\ KeysOf(storage) = {2, 3}

\* C35: an audit record written by PaymentAuditStorage (storage.set(key, str,
\* TTL)) into an InMemoryStorage stays readable for 24 hours after the write
\* and is treated as expired only after that time has elapsed.
C35_AuditRecordReadableForADay ==
  [][\A i \in 1..Len(storage) :
       (/\ storage[i].ttl = TTL
        /\ clock - storage[i].timestamp <= DayMs
        /\ Get(storage[i].key)) =>
          /\ got' = storage[i].value
          /\ storage' = storage]_vars

\* C36: for each outgoing request id the client signs at most one payment
\* authorization: a further x402/payment_required request carrying a requestId
\* for which a payment was already signed is rejected and not signed again.
\* Stated for the requests the client has sent and tracked in its ledger.
C36_AtMostOneSignature ==
  [][\A id \in Ids :
       (paid[id] /\ config.auditStorage /\ sendSt[id] # "idle") =>
         /\ (rpc[id] = "idle" /\ rpc'[id] # "idle") =>
              (rpc'[id] = "respond" /\ resp'[id].kind \notin {"result", "pending"})
         /\ ~(rpc[id] = "sign" /\ rpc'[id] = "respond" /\ resp'[id] = Result)]_vars

\* createPayment returns for the challenge of id: an authorization is signed.
Signs(id) == rpc[id] = "sign" /\ rpc'[id] = "respond" /\ resp'[id] = Result

\* C37: in every client configuration, a client constructed without
\* auditStorage included, the responder signs a payment only for a requestId
\* that this client has previously sent as an outgoing request.
C37_SignsOnlyOwnRequests ==
  [][\A id \in Ids : Signs(id) => sendSt[id] # "idle"]_vars

\* C37, amended: a client constructed with auditStorage signs only when its
\* ledger holds a record under pending:<requestId>, which in a ledger written
\* by this client alone means a request it has sent; a client constructed
\* without auditStorage makes no such check, and a well-formed challenge goes
\* on to the guardrails or the wallet whatever its requestId.
C37_LedgerGatesSigning ==
  [][\A id \in Ids :
       /\ (config.auditStorage /\ Signs(id)) =>
            (store[PendingKey(id)] # NoRecord /\ sendSt[id] # "idle")
       /\ \A c \in ChallengeInputs :
            (/\ ~config.auditStorage
             /\ BasicCheck(id, c) = NoError
             /\ ~config.guardrails.configured \/ PricerKnows(c.network)
             /\ ChallengeArrives(id, c)) =>
               rpc'[id] \in {"enforce", "account"}]_vars

\* A client with a ledger has signed for request 1, which it had sent, on the
\* first challenge for it.
C37_Witness ==
  /\ config.auditStorage
  /\ sendSt[1] # "idle"
  /\ demanded[1] = 1
  /\ rpc[1] = "respond"
  /\ resp[1] = Result
  /\ paid[1]

\* C38: a payment_result notification with success=false is sent only in
\* invocations where executeSettlement did not return success=true: once the
\* settlement has succeeded (the success notification was attempted), no
\* notification with success=false goes out for that requestId, even when the
\* sending of the success notification failed.
C38_NoFailureNoticeAfterSuccess ==
  \A r \in ReqIds :
    (\E i \in 1..Len(notifs[r]) : notifs[r][i].success) =>
       ~(\E j \in 1..Len(notifs[r]) : ~notifs[r][j].success /\ notifs[r][j].sent)

\* C39: with two clients sharing one audit storage instance, a
\* x402/payment_required request delivered to this client with a requestId
\* that only the other client has sent is rejected with PAYMENT_INVALID and
\* not signed by this client.
C39_PeerRequestNotSigned ==
  [][\A id \in Ids :
       (peerSent[id] /\ sendSt[id] = "idle") =>
         /\ ~Signs(id)
         /\ \A c \in ChallengeInputs :
              (BasicCheck(id, c) = NoError /\ ChallengeArrives(id, c)) =>
                 (rpc'[id] = "respond" /\ resp'[id] = PaymentError(PAYMENT_INVALID))]_vars

\* C40: under fairness, each external call eventually returning or throwing,
\* every invocation of a wrapped handler eventually returns a result or raises
\* an error, and at that point ctx holds neither paymentProof nor
\* paymentRequirements.
C40_InvocationTerminatesClean ==
  /\ \A r \in ReqIds :
       (pc[r] \notin {"idle", "done"} /\ mode[r] = "wrapper") ~>
         (pc[r] = "done" /\ outcome[r] # NoOutcome)
  /\ [](\A r \in ReqIds :
          (pc[r] = "done" /\ mode[r] = "wrapper") =>
             /\ outcome[r] # NoOutcome
             /\ ctx[r].paymentProof = NoPayment
             /\ ctx[r].paymentRequirements = NoRequirements)

\* Request 1 went through every external call, the last of them a failure
\* notification whose send rejected, and its callback has raised with the
\* context stripped.
C40_Witness ==
  /\ pc[1] = "done" /\ mode[1] = "wrapper" /\ prot[1]
  /\ outcome[1].kind # "result" /\ outcome[1] # NoOutcome
  /\ Len(notifs[1]) = 2
  /\ ~notifs[1][2].sent
  /\ ctx[1] = EmptyCtx

====
